---- MODULE Spec2Model ----
(***************************************************************************)
(* Model of the Muxlicer sequencer and of its clock engines.               *)
(*                                                                         *)
(* Units.  Times are integers counting tenths of a millisecond (1e-4 s),   *)
(* so 1 ms = 10, 0.25 s = 2500, 2 s = 20000 and the -1.0 s sentinel is     *)
(* -10000.  Every time the program computes is a sum of sample times or    *)
(* such a sum divided by a clock multiplication, so the float arithmetic   *)
(* of the source is modelled exactly over the rationals: a quotient is     *)
(* kept as numerator and denominator and comparisons are cross-multiplied. *)
(* Voltages are integers counting tenths of a volt.                        *)
(***************************************************************************)
EXTENDS Integers, Sequences, FiniteSets, TLC

(***************************************************************************)
(* Bounds of the model.                                                    *)
(***************************************************************************)
\* args.sampleTime of Muxlicer::process, in 1e-4 s (0.5 s per sample)
SampleTime == 5000
\* the cable on CLOCK_INPUT carries a steady clock of this many samples
ClockPeriod == 3

\* the steady clocks fed to a MultDivClock alone have 2 .. MaxPeriod samples
MaxPeriod == 7
\* and deliver this many edges
MaxEdges == 7
\* a freely driven MultDivClock gets an edge at least every MaxIdle * 1e-4 s
MaxIdle == 30

(***************************************************************************)
(* Program constants.                                                      *)
(***************************************************************************)
STATE_PLAY_ONCE == 0
STATE_STOPPED == 1
STATE_PLAY == 2
SEQUENCE_LENGTH == 8
\* secondsSinceLastClock = inputClockLengthSeconds = -1.0f
ClockSentinel == -10000
\* std::max(0.001f, ...)
MinGateSeconds == 10
\* internalClockLength = 0.25f
InternalClockLengthInit == 2500
\* tapTime = 99999
TapTimeInit == 999990000
\* if (tapTime < 2.f)
TapTimeLimit == 20000
\* endOfCyclePulse.trigger(1e-3)
EocPulseSeconds == 10
\* rescale(v, 0.1f, 2.f, 0.f, 1.f) = (v - 0.1) / 1.9, in tenths of a volt
RescaleLow == 1
RescaleHigh == 20

Max(a, b) == IF a >= b THEN a ELSE b
Min(a, b) == IF a <= b THEN a ELSE b

(***************************************************************************)
(* Inputs of one process call.                                             *)
(***************************************************************************)
\* CLOCK_INPUT: a square wave, 5 V for the first sample of each period
ClockVoltage(phase) == IF phase = 0 THEN 50 ELSE 0
ResetVoltages == {0, 50}
PlayParams == {STATE_PLAY_ONCE, STATE_STOPPED, STATE_PLAY}
\* ADDRESS_PARAM + ADDRESS_INPUT in tenths: -0.1, 0.5, 12.0
AddressValues == {-1, 5, 120}
TapValues == {0, 1}
\* mainClockMultDiv.multDiv as the menu leaves it
MainRatios == {1}

(***************************************************************************)
(* dsp::SchmittTrigger, dsp::BooleanTrigger, dsp::PulseGenerator           *)
(***************************************************************************)
\* rescale(x, 0.1, 2, 0, 1) as the fraction num / den
RescaleNum(v) == v - RescaleLow
RescaleDen == RescaleHigh - RescaleLow

\* SchmittTrigger::process(in) with in = num / den, den > 0
SchmittTriggerNoHysteresis(state, num, den) ==
    IF state
    THEN [state |-> ~(num < den), triggered |-> FALSE]
    ELSE IF num >= den
         THEN [state |-> TRUE, triggered |-> TRUE]
         ELSE [state |-> FALSE, triggered |-> FALSE]

SchmittTriggerProcess(state, num, den) ==
    IF state
    THEN [state |-> ~(num <= 0), triggered |-> FALSE]
    ELSE IF num >= den
         THEN [state |-> TRUE, triggered |-> TRUE]
         ELSE [state |-> FALSE, triggered |-> FALSE]

\* BooleanTrigger::process(state)
BooleanTriggerProcess(state, in) ==
    [state |-> in, triggered |-> in /\ ~state]

\* PulseGenerator::trigger(duration)
PulseGeneratorTrigger(remaining, duration) ==
    IF duration > remaining THEN duration ELSE remaining

\* PulseGenerator::process(deltaTime)
PulseGeneratorProcess(remaining, dt) ==
    IF remaining > 0
    THEN [remaining |-> remaining - dt, high |-> TRUE]
    ELSE [remaining |-> remaining, high |-> FALSE]

(***************************************************************************)
(* MultDivClock                                                            *)
(***************************************************************************)
MultDivClockInit(ratio) ==
    [multDiv |-> ratio,
     secondsSinceLastClock |-> ClockSentinel,
     inputClockLengthSeconds |-> ClockSentinel,
     dividerCount |-> 0,
     dividedProgressSeconds |-> 0]

\* const int division = std::max(-multDiv, 1)
Division(multDiv) == Max(-multDiv, 1)
\* const int multiplication = std::max(multDiv, 1)
MultiplicationUnclamped(multDiv) == multDiv

Multiplication(multDiv) == Max(multDiv, 1)

\* ++dividerCount; if (dividerCount >= division) dividerCount = 0;
DividerCountStepLate(count, division) ==
    IF count + 1 > division THEN 0 ELSE count + 1

DividerCountStep(count, division) ==
    IF count + 1 >= division THEN 0 ELSE count + 1

\* The gate test of process(): dividedSeconds = D, multipliedSeconds = D / m.
\* multipliedProgressSeconds = frac(p / (D / m)) * (D / m) = ((p * m) % D) / m
\* and gateSeconds = max(0.001, D / (2 m)); both sides times 2 m.
GateHighUnmultiplied(p, D, m) ==
    /\ p < D
    /\ 2 * (p % D) <= Max(2 * MinGateSeconds, D)

GateHighNoElapsedTest(p, D, m) ==
    LET a == IF D < 0 THEN -D ELSE D
    IN  /\ a # 0
        /\ 2 * ((p * m) % a) <= Max(2 * m * MinGateSeconds, D)

GateHigh(p, D, m) ==
    /\ p < D
    /\ 2 * ((p * m) % D) <= Max(2 * m * MinGateSeconds, D)

\* MultDivClock::process(deltaTime, clockPulseReceived)
MultDivClockProcess(c, dt, clockPulseReceived) ==
    LET len1 == IF clockPulseReceived /\ c.secondsSinceLastClock > 0
                THEN c.secondsSinceLastClock
                ELSE c.inputClockLengthSeconds
        ssl1 == IF clockPulseReceived THEN 0 ELSE c.secondsSinceLastClock
        division == Division(c.multDiv)
        multiplication == Multiplication(c.multDiv)
        prog == IF clockPulseReceived /\ c.dividerCount < 1
                THEN 0
                ELSE c.dividedProgressSeconds + dt
        cnt2 == IF clockPulseReceived
                THEN DividerCountStep(c.dividerCount, division)
                ELSE c.dividerCount
        dividedSeconds == len1 * division
    IN  IF ssl1 >= 0
        THEN [clock |-> [multDiv |-> c.multDiv,
                         secondsSinceLastClock |-> ssl1 + dt,
                         inputClockLengthSeconds |-> len1,
                         dividerCount |-> cnt2,
                         dividedProgressSeconds |-> prog],
              out |-> IF GateHigh(prog, dividedSeconds, multiplication) THEN 1 ELSE 0]
        ELSE [clock |-> [c EXCEPT !.inputClockLengthSeconds = len1,
                                  !.secondsSinceLastClock = ssl1],
              out |-> 0]

\* MultDivClock::getEffectiveClockLength() as the fraction n / d
GetEffectiveClockLength(c) ==
    [n |-> c.inputClockLengthSeconds * Division(c.multDiv),
     d |-> Multiplication(c.multDiv)]

(***************************************************************************)
(* MultiGateClock: remaining and fullPulseLength are fractions over den    *)
(***************************************************************************)
MultiGateClockInit == [remaining |-> 0, fullPulseLength |-> 0, den |-> 1]

\* MultiGateClock::reset(newfullPulseLength)
MultiGateClockReset(len) ==
    [remaining |-> len.n, fullPulseLength |-> len.n, den |-> len.d]

\* MultiGateClock::process(deltaTime)
MultiGateClockProcess(g, dt) ==
    IF g.remaining > 0
    THEN [g EXCEPT !.remaining = @ - dt * g.den]
    ELSE g

\* the gate level 10.f, in tenths of a volt
GateHighVoltage == 100

\* isOddPulse = int(floor(remaining / multiGateOnLength)) % 2 with
\* multiGateOnLength = fullPulseLength / (2 gateMode); den cancels
IsOddPulseUndivided(remaining, fullPulseLength, gateMode) ==
    ((remaining * gateMode) \div fullPulseLength) % 2 = 1

IsOddPulse(remaining, fullPulseLength, gateMode) ==
    ((remaining * 2 * gateMode) \div fullPulseLength) % 2 = 1

\* MultiGateClock::getGate(gateMode)
GetGateElapsedFirst(g, gateMode) ==
    IF gateMode < 0 \/ g.remaining <= 0
    THEN 0
    ELSE IF gateMode = 0
         THEN GateHighVoltage
         ELSE IF IsOddPulse(g.remaining, g.fullPulseLength, gateMode)
              THEN GateHighVoltage
              ELSE 0

GetGate(g, gateMode) ==
    IF gateMode = 0
    THEN GateHighVoltage
    ELSE IF gateMode < 0 \/ g.remaining <= 0
         THEN 0
         ELSE IF IsOddPulse(g.remaining, g.fullPulseLength, gateMode)
              THEN GateHighVoltage
              ELSE 0

(***************************************************************************)
(* Muxlicer                                                                *)
(***************************************************************************)
VARIABLES
    clockConnected,         \* inputs[CLOCK_INPUT].isConnected()
    clockPhase,             \* the sample within the period of the clock on CLOCK_INPUT
    inputClockTrigger,      \* state of the Schmitt trigger on CLOCK_INPUT
    tapTempoTrigger,        \* state of the boolean trigger on TAP_TEMPO_PARAM
    resetTrigger,           \* state of the Schmitt trigger on RESET_INPUT
    playStateTrigger,       \* state of the boolean trigger on PLAY_PARAM
    mainClockTrigger,       \* state of the Schmitt trigger on the main clock
    playState,
    runIndex,
    addressIndex,
    reset,
    internalClockProgress,
    internalClockLength,
    tapTime,
    mainClockMultDiv,
    outputClockMultDiv,
    multiClock,
    endOfCyclePulse,        \* PulseGenerator::remaining
    eocOutput,              \* outputs[EOC_OUTPUT], in volts
    clockOutput,            \* outputs[CLOCK_OUTPUT], in volts
    last,                   \* history: what the last process call saw and did
    onceEdges,              \* history: main clock edges of the one-shot cycle
    onceEocs,               \* history: end-of-cycle pulses of the one-shot cycle
    stoppedIndex            \* history: runIndex when the module last became STOPPED, -1 if it never did

muxVars == <<clockConnected, clockPhase, inputClockTrigger, tapTempoTrigger, resetTrigger,
             playStateTrigger, mainClockTrigger, playState, runIndex,
             addressIndex, reset, internalClockProgress, internalClockLength,
             tapTime, mainClockMultDiv, outputClockMultDiv, multiClock,
             endOfCyclePulse, eocOutput, clockOutput, last, onceEdges,
             onceEocs, stoppedIndex>>

\* the reset input of process(): a rising edge sets reset and leaves STOPPED
ResetInputNoStart(ps, triggered) == [playState |-> ps, reset |-> triggered]

ResetInput(ps, triggered) ==
    [playState |-> IF triggered /\ ps = STATE_STOPPED THEN STATE_PLAY_ONCE ELSE ps,
     reset |-> triggered]

\* if (playStateTrigger.process(switchIsActive) && switchIsActive)
SwitchFiredLevel(trig, play) == play # STATE_STOPPED

SwitchFired(trig, play) ==
    LET switchIsActive == play # STATE_STOPPED
    IN  BooleanTriggerProcess(trig, switchIsActive).triggered /\ switchIsActive

\* the transitions of processPlayResetSwitch() on a fresh activation
SwitchTransitionToOnce(ps, ri, rs, play) ==
    IF play = STATE_PLAY
    THEN [playState |-> IF ps = STATE_STOPPED THEN STATE_PLAY ELSE STATE_STOPPED,
          runIndex |-> ri, reset |-> rs]
    ELSE IF play = STATE_PLAY_ONCE
         THEN [playState |-> STATE_PLAY_ONCE, runIndex |-> 0, reset |-> TRUE]
         ELSE [playState |-> ps, runIndex |-> ri, reset |-> rs]

SwitchTransition(ps, ri, rs, play) ==
    LET same == [playState |-> ps, runIndex |-> ri, reset |-> rs]
    IN  IF ps = STATE_STOPPED
        THEN IF play = STATE_PLAY
             THEN [same EXCEPT !.playState = STATE_PLAY]
             ELSE IF play = STATE_PLAY_ONCE
                  THEN [same EXCEPT !.playState = STATE_PLAY_ONCE,
                                    !.runIndex = 0, !.reset = TRUE]
                  ELSE same
        ELSE IF play = STATE_PLAY
             THEN [same EXCEPT !.playState = STATE_STOPPED]
             ELSE IF play = STATE_PLAY_ONCE
                  THEN [same EXCEPT !.reset = TRUE, !.runIndex = 0]
                  ELSE same

\* Muxlicer::processPlayResetSwitch()
ProcessPlayResetSwitch(ps, ri, rs, trig, play) ==
    LET t == BooleanTriggerProcess(trig, play # STATE_STOPPED)
        fired == SwitchFired(trig, play)
        tr == IF fired
              THEN SwitchTransition(ps, ri, rs, play)
              ELSE [playState |-> ps, runIndex |-> ri, reset |-> rs]
    IN  [playState |-> tr.playState, runIndex |-> tr.runIndex, reset |-> tr.reset,
         trigger |-> t.state, fired |-> fired]

\* const bool isSequenceAdvancing = address < 0.f
IsSequenceAdvancingBelowOne(address) == address < 10

IsSequenceAdvancing(address) == address < 0

\* the body of if (dividedMultedClockPulseReceived) { if (isSequenceAdvancing) ... }
AdvanceSequenceNoStop(ri, ps, eoc) ==
    IF ri + 1 >= SEQUENCE_LENGTH
    THEN [runIndex |-> 0,
          endOfCyclePulse |-> PulseGeneratorTrigger(eoc, EocPulseSeconds),
          playState |-> ps]
    ELSE [runIndex |-> ri + 1, endOfCyclePulse |-> eoc, playState |-> ps]

AdvanceSequenceNoPulse(ri, ps, eoc) ==
    [runIndex |-> (ri + 1) % SEQUENCE_LENGTH,
     endOfCyclePulse |-> eoc,
     playState |-> IF ri + 1 >= SEQUENCE_LENGTH /\ ps = STATE_PLAY_ONCE
                   THEN STATE_STOPPED ELSE ps]

AdvanceSequence(ri, ps, eoc) ==
    IF ri + 1 >= SEQUENCE_LENGTH
    THEN [runIndex |-> 0,
          endOfCyclePulse |-> PulseGeneratorTrigger(eoc, EocPulseSeconds),
          playState |-> IF ps = STATE_PLAY_ONCE THEN STATE_STOPPED ELSE ps]
    ELSE [runIndex |-> ri + 1, endOfCyclePulse |-> eoc, playState |-> ps]

\* roundf(address) for address in tenths: halves round away from zero
RoundTenths(a) == IF a >= 0 THEN (a + 5) \div 10 ELSE -((-a + 5) \div 10)

\* clamp(x, lo, hi)
Clamp(x, lo, hi) == Max(Min(x, hi), lo)

\* addressIndex as process() sets it
AddressIndexUnclamped(address, ri) ==
    IF IsSequenceAdvancing(address) THEN ri ELSE RoundTenths(address)

AddressIndex(address, ri) ==
    IF IsSequenceAdvancing(address)
    THEN ri
    ELSE Clamp(RoundTenths(address), 0, SEQUENCE_LENGTH - 1)

\* tapTime += args.sampleTime.  The program only reads tapTime < 2.f, so the
\* values from 2 s on are all alike and the sum stops growing there.
TapTimeAdd(t, dt) == IF t >= TapTimeLimit THEN t ELSE t + dt

LastInit ==
    [valid |-> FALSE, playState |-> STATE_STOPPED, runIndex |-> 0,
     resetEdge |-> FALSE, switchFired |-> FALSE,
     mainEdge |-> FALSE, eocTriggered |-> FALSE, play |-> STATE_STOPPED,
     switchHeld |-> FALSE, address |-> -1]

\* Muxlicer(), onReset() and the field initialisers
\* the fields after construction, but for three that a patch may hold
MuxStart(ps, mainRatio, outRatio) ==
    /\ clockConnected = TRUE
    /\ clockPhase = 0
    /\ inputClockTrigger = TRUE
    /\ tapTempoTrigger = TRUE
    /\ resetTrigger = TRUE
    /\ playStateTrigger = TRUE
    /\ mainClockTrigger = TRUE
    /\ playState = ps
    /\ runIndex = 0
    /\ addressIndex = 0
    /\ reset = FALSE
    /\ internalClockProgress = 0
    /\ internalClockLength = InternalClockLengthInit
    /\ tapTime = TapTimeInit
    /\ mainClockMultDiv = MultDivClockInit(mainRatio)
    /\ outputClockMultDiv = MultDivClockInit(outRatio)
    /\ multiClock = MultiGateClockInit
    /\ endOfCyclePulse = 0
    /\ eocOutput = 0
    /\ clockOutput = 0
    /\ last = LastInit
    /\ onceEdges = -1
    /\ onceEocs = 0
    /\ stoppedIndex = -1

MuxInit == \E r \in MainRatios : MuxStart(STATE_STOPPED, r, 1)

\* the polling of TAP_TEMPO_PARAM: else if (!usingExternalClock && tapTempoTrigger.process(...))
TapTempoProcessAlways(usingExternalClock, trig, tap) ==
    BooleanTriggerProcess(trig, tap # 0)

TapTempoProcess(usingExternalClock, trig, tap) ==
    IF ~usingExternalClock
    THEN BooleanTriggerProcess(trig, tap # 0)
    ELSE [state |-> trig, triggered |-> FALSE]

\* if (tapTime < 2.f) internalClockLength = tapTime;  on an accepted pulse
MeasuredClockLengthNoLimit(pulse, tapT, length) ==
    IF pulse THEN tapT ELSE length

MeasuredClockLength(pulse, tapT, length) ==
    IF pulse /\ tapT < TapTimeLimit THEN tapT ELSE length

\* if (reset) { runIndex = 0; reset = false; }: "reset doesn't reset/sync the
\* clock, it just moves the sequence index marker back to the start"
ApplyResetKeepsFlag(ri, rs, progress) ==
    [runIndex |-> IF rs THEN 0 ELSE ri, reset |-> rs,
     internalClockProgress |-> progress]

ApplyResetSyncsClock(ri, rs, progress) ==
    [runIndex |-> IF rs THEN 0 ELSE ri, reset |-> FALSE,
     internalClockProgress |-> IF rs THEN 0 ELSE progress]

ApplyReset(ri, rs, progress) ==
    [runIndex |-> IF rs THEN 0 ELSE ri, reset |-> FALSE,
     internalClockProgress |-> progress]

\* the fields of the Muxlicer (and the history kept beside them) as a record
MuxState ==
    [clockConnected |-> clockConnected,
     inputClockTrigger |-> inputClockTrigger,
     tapTempoTrigger |-> tapTempoTrigger,
     resetTrigger |-> resetTrigger,
     playStateTrigger |-> playStateTrigger,
     mainClockTrigger |-> mainClockTrigger,
     playState |-> playState,
     runIndex |-> runIndex,
     addressIndex |-> addressIndex,
     reset |-> reset,
     internalClockProgress |-> internalClockProgress,
     internalClockLength |-> internalClockLength,
     tapTime |-> tapTime,
     mainClockMultDiv |-> mainClockMultDiv,
     outputClockMultDiv |-> outputClockMultDiv,
     multiClock |-> multiClock,
     endOfCyclePulse |-> endOfCyclePulse,
     eocOutput |-> eocOutput,
     clockOutput |-> clockOutput,
     last |-> last,
     onceEdges |-> onceEdges,
     onceEocs |-> onceEocs,
     stoppedIndex |-> stoppedIndex]

\* Muxlicer::process(args) with args.sampleTime = SampleTime, lines 290-376
\* and 423-426: the fields after the call, from the fields s before it
MuxStep(s, clockV, resetV, play, address, tap) ==
    LET dt == SampleTime
        usingExternalClock == s.clockConnected
        inT == IF usingExternalClock
               THEN SchmittTriggerProcess(s.inputClockTrigger, RescaleNum(clockV), RescaleDen)
               ELSE [state |-> s.inputClockTrigger, triggered |-> FALSE]
        tapT == TapTempoProcess(usingExternalClock, s.tapTempoTrigger, tap)
        externalClockPulseReceived == inT.triggered \/ tapT.triggered
        resT == SchmittTriggerProcess(s.resetTrigger, RescaleNum(resetV), RescaleDen)
        rin == ResetInput(s.playState, resT.triggered)
        sw == ProcessPlayResetSwitch(rin.playState, s.runIndex, s.reset \/ rin.reset,
                                     s.playStateTrigger, play)
        isSequenceAdvancing == IsSequenceAdvancing(address)
        \* the internal clock
        icl == MeasuredClockLength(externalClockPulseReceived, s.tapTime,
                                   s.internalClockLength)
        tap1 == TapTimeAdd(IF externalClockPulseReceived THEN 0 ELSE s.tapTime, dt)
        icp1 == (IF externalClockPulseReceived THEN 0 ELSE s.internalClockProgress) + dt
        internalClockPulseReceived == icp1 >= icl
        icp2 == IF internalClockPulseReceived THEN 0 ELSE icp1
        clockPulseReceived == IF usingExternalClock
                              THEN externalClockPulseReceived
                              ELSE internalClockPulseReceived
        main == MultDivClockProcess(s.mainClockMultDiv, dt, clockPulseReceived)
        mainT == SchmittTriggerProcess(s.mainClockTrigger, main.out, 1)
        dividedMultedClockPulseReceived == mainT.triggered
        rst == ApplyReset(sw.runIndex, sw.reset, icp2)
        ri1 == rst.runIndex
        adv == IF dividedMultedClockPulseReceived /\ isSequenceAdvancing
               THEN AdvanceSequence(ri1, sw.playState, s.endOfCyclePulse)
               ELSE [runIndex |-> ri1, endOfCyclePulse |-> s.endOfCyclePulse,
                     playState |-> sw.playState]
        mgc1 == IF dividedMultedClockPulseReceived
                THEN MultiGateClockReset(GetEffectiveClockLength(main.clock))
                ELSE s.multiClock
        outClk == MultDivClockProcess(s.outputClockMultDiv, dt, clockPulseReceived)
        eoc == PulseGeneratorProcess(adv.endOfCyclePulse, dt)
        \* history: trigger() was called, which always raises remaining
        eocTriggered == adv.endOfCyclePulse # s.endOfCyclePulse
        \* history of the one-shot cycle
        startOnce == /\ s.playState = STATE_STOPPED
                     /\ ~resT.triggered
                     /\ sw.fired
                     /\ play = STATE_PLAY_ONCE
        edges == IF startOnce THEN 0
                 ELSE IF s.onceEdges \in 0 .. (SEQUENCE_LENGTH - 1)
                         /\ ~resT.triggered /\ ~sw.fired
                      THEN s.onceEdges
                      ELSE -1
        edges1 == IF edges >= 0 /\ dividedMultedClockPulseReceived
                  THEN IF isSequenceAdvancing THEN edges + 1 ELSE -1
                  ELSE edges
        eocs == IF edges1 < 0 THEN 0
                ELSE (IF startOnce THEN 0 ELSE s.onceEocs) + (IF eocTriggered THEN 1 ELSE 0)
    IN  [clockConnected |-> s.clockConnected,
         inputClockTrigger |-> inT.state,
         tapTempoTrigger |-> tapT.state,
         resetTrigger |-> resT.state,
         playStateTrigger |-> sw.trigger,
         mainClockTrigger |-> mainT.state,
         playState |-> adv.playState,
         runIndex |-> adv.runIndex,
         addressIndex |-> AddressIndex(address, adv.runIndex),
         reset |-> rst.reset,
         internalClockProgress |-> rst.internalClockProgress,
         internalClockLength |-> icl,
         tapTime |-> tap1,
         mainClockMultDiv |-> main.clock,
         outputClockMultDiv |-> outClk.clock,
         multiClock |-> MultiGateClockProcess(mgc1, dt),
         endOfCyclePulse |-> eoc.remaining,
         eocOutput |-> IF eoc.high THEN 10 ELSE 0,
         clockOutput |-> IF outClk.out = 1 THEN 10 ELSE 0,
         last |-> [valid |-> TRUE, playState |-> s.playState, runIndex |-> s.runIndex,
                       resetEdge |-> resT.triggered, switchFired |-> sw.fired,
                       mainEdge |-> dividedMultedClockPulseReceived,
                       eocTriggered |-> eocTriggered,
                       play |-> play,
                       switchHeld |-> s.last.play # STATE_STOPPED /\ play # STATE_STOPPED,
                       address |-> address],
         onceEdges |-> edges1,
         onceEocs |-> eocs,
         stoppedIndex |-> IF s.playState = STATE_STOPPED /\ ~resT.triggered
                           THEN s.stoppedIndex
                           ELSE IF adv.playState = STATE_STOPPED
                                THEN adv.runIndex
                                ELSE -1]


(***************************************************************************)
(* A MultDivClock driven alone                                             *)
(***************************************************************************)
VARIABLES
    clk,            \* the MultDivClock under test
    clkOut,         \* what its last process() call returned
    clkTwin,        \* a second MultDivClock, with multDiv = 1, fed the same calls
    twinOut,        \* what the last process() call of clkTwin returned
    clkDt,          \* deltaTime of the steady run, in 1e-4 s
    clkPeriod,      \* period of the steady input clock, in samples
    clkPhase,       \* the sample within the input period of the next call
    clkEdges,       \* history: input edges delivered so far
    clkPulses,      \* history: rising edges of the output in the current cycle
    clkDone         \* history: rising edges of the output in the last complete
                    \* cycle that began with the period measured, -1 if none

clockVars == <<clk, clkOut, clkTwin, twinOut, clkDt, clkPeriod, clkPhase,
               clkEdges, clkPulses, clkDone>>

\* deltaTime of the calls: 0.2 ms and 1 ms
ClockSampleTimes == {2, 10}
\* multDiv of the steady runs
SteadyRatios == {1, 2, 3, -2, -3}

\* multDiv of the runs from construction
StartRatios == {-3, -1, 0, 1, 2}

\* the number of input edges that make one cycle of the output for a ratio
RatioDivisor(r) == IF r < 0 THEN -r ELSE 1

ClockIdle ==
    /\ clk = MultDivClockInit(1)
    /\ clkOut = 0
    /\ clkTwin = MultDivClockInit(1)
    /\ twinOut = 0
    /\ clkDt = 0
    /\ clkPeriod = 0
    /\ clkPhase = 0
    /\ clkEdges = 0
    /\ clkPulses = 0
    /\ clkDone = -1

\* a steady clock of clkPeriod samples into an engine with a fixed ratio
SteadyInit ==
    /\ \E r \in SteadyRatios : clk = MultDivClockInit(r)
    /\ clkOut = 0
    /\ clkTwin = MultDivClockInit(1)
    /\ twinOut = 0
    /\ clkDt \in ClockSampleTimes
    /\ clkPeriod \in 2 .. MaxPeriod
    /\ clkPhase = 0
    /\ clkEdges = 0
    /\ clkPulses = 0
    /\ clkDone = -1

\* one call of process(clkDt, edge) in the steady run; the sample that
\* begins an input period carries the edge
SteadyStep ==
    LET edge == clkPhase = 0
        r == MultDivClockProcess(clk, clkDt, edge)
        rising == clkOut = 0 /\ r.out = 1
        cycleStart == edge /\ clkEdges % RatioDivisor(clk.multDiv) = 0
    IN  /\ edge => clkEdges < MaxEdges
        /\ clk' = r.clock
        /\ clkOut' = r.out
        /\ clkPhase' = (clkPhase + 1) % clkPeriod
        /\ clkEdges' = IF edge THEN clkEdges + 1 ELSE clkEdges
        /\ clkPulses' = (IF cycleStart THEN 0 ELSE clkPulses)
                        + (IF rising THEN 1 ELSE 0)
        /\ clkDone' = IF cycleStart
                      THEN IF clkEdges >= 2 THEN clkPulses ELSE -1
                      ELSE clkDone
        /\ UNCHANGED <<clkTwin, twinOut, clkDt, clkPeriod>>

\* an engine with multDiv = 0 and one with multDiv = 1 fed the same calls
FreeInit ==
    /\ clk = MultDivClockInit(0)
    /\ clkOut = 0
    /\ clkTwin = MultDivClockInit(1)
    /\ twinOut = 0
    /\ clkDt = 0
    /\ clkPeriod = 0
    /\ clkPhase = 0
    /\ clkEdges = 0
    /\ clkPulses = 0
    /\ clkDone = -1

\* one call of process(dt, edge) on both engines, for any dt and edge
FreeStep ==
    \E dt \in ClockSampleTimes, edge \in BOOLEAN :
        LET r == MultDivClockProcess(clk, dt, edge)
            t == MultDivClockProcess(clkTwin, dt, edge)
        IN  /\ t.clock.secondsSinceLastClock <= MaxIdle
            /\ clk' = r.clock
            /\ clkOut' = r.out
            /\ clkTwin' = t.clock
            /\ twinOut' = t.out
            /\ clkDt' = dt
            /\ clkEdges' = IF edge THEN Min(clkEdges + 1, 2) ELSE clkEdges
            /\ UNCHANGED <<clkPeriod, clkPhase, clkPulses, clkDone>>

(***************************************************************************)
(* SamplingModulator.  stepPhase and deltaPhase are in quarters of a       *)
(* cycle, voltages in tenths of a volt.  The band-limited step             *)
(* synthesizers are followed by the magnitudes handed to holdMinBlep only. *)
(***************************************************************************)
numSteps == 8
STATE_RESET == 0
STATE_OFF == 1
STATE_ON == 2
CLOCK_EXTERNAL == 0
CLOCK_INTERNAL == 1
\* stepPhase 1.0 and 0.5
PhaseOne == 4
PhaseHalf == 2
\* triggerGenerator.trigger(): the default duration 1e-3 s
TriggerSeconds == 10

\* the rate knob leaves deltaPhase at a quarter or half a cycle per sample
DeltaPhases == {1, PhaseHalf}
SyncVoltages == {0, 50}
HoldVoltages == {0, 50}
InVoltages == {10, 25}

StepConfig(seq) == [i \in 0 .. numSteps - 1 |-> seq[i + 1]]
\* the positions of the eight step switches
StepConfigs ==
    { StepConfig(<<STATE_ON, STATE_ON, STATE_ON, STATE_ON,
                   STATE_ON, STATE_ON, STATE_ON, STATE_ON>>),
      StepConfig(<<STATE_ON, STATE_OFF, STATE_RESET, STATE_ON,
                   STATE_ON, STATE_RESET, STATE_OFF, STATE_ON>>),
      StepConfig(<<STATE_RESET, STATE_ON, STATE_ON, STATE_ON,
                   STATE_ON, STATE_ON, STATE_ON, STATE_ON>>) }

VARIABLES
    clockMode,              \* params[INT_EXT_PARAM]
    stepParams,             \* params[STEP_PARAM + i]
    numEffectiveSteps,
    currentStep,
    stepStates,
    triggerGenerator,       \* PulseGenerator::remaining
    holdDetector,           \* state of the Schmitt trigger on HOLD_INPUT
    clock,                  \* state of the Schmitt trigger on SYNC_INPUT
    removeDC,
    deltaPhase,             \* clamp(args.sampleTime * frequency, 1e-6f, 0.5f)
    stepPhase,
    heldValue,
    halfPhase,
    holdSum,                \* history: sum of the magnitudes given to holdMinBlep
    smLast                  \* history: what the last process() call did

smVars == <<clockMode, stepParams, numEffectiveSteps, currentStep, stepStates,
            triggerGenerator, holdDetector, clock, removeDC, deltaPhase, stepPhase,
            heldValue, halfPhase, holdSum, smLast>>

\* the loop of lines 129-137: numActiveSteps counts the ON steps up to the
\* first RESET, numEffectiveSteps is the index of that RESET
RECURSIVE ScanSteps(_, _, _)
ScanSteps(states, i, active) ==
    IF i >= numSteps
    THEN [numEffectiveSteps |-> 8, numActiveSteps |-> active]
    ELSE LET a == active + (IF states[i] = STATE_ON THEN 1 ELSE 0)
         IN  IF states[i] = STATE_RESET
             THEN [numEffectiveSteps |-> i, numActiveSteps |-> a]
             ELSE ScanSteps(states, i + 1, a)

\* std::max(1, numEffectiveSteps)
StepModulusPastEnd(effective) == Max(1, effective + 1)

StepModulus(effective) == Max(1, effective)

\* heldValue - oldHeldValue
HoldDeltaNew(new, old) == new

HoldDelta(new, old) == new - old

\* if (stepStates[currentStep] == STATE_ON) ... if (!holdDetector.isHigh())
SampleOnAdvanceIgnoringHold(stepState, holdHigh) == stepState = STATE_ON

SampleOnAdvance(stepState, holdHigh) == stepState = STATE_ON /\ ~holdHigh

\* if (params[INT_EXT_PARAM].getValue() == CLOCK_INTERNAL) advanceStep = true
AdvanceOnWrapAlways(mode) == TRUE

AdvanceOnWrap(mode) == mode = CLOCK_INTERNAL

\* if (removeDC) { ... if (numEffectiveSteps > 0) trigger += (...) / numEffectiveSteps
DcCompensatedUnguarded(dc, effective) == dc

DcCompensated(dc, effective) == dc /\ effective > 0

SmLastInit ==
    [valid |-> FALSE, external |-> FALSE, syncEdge |-> FALSE,
     holdEdge |-> FALSE, wrapped |-> FALSE, advanced |-> FALSE,
     prevStep |-> 0, heldChanged |-> FALSE, halfIndex |-> -1,
     modulus |-> 0, dcDivisor |-> -1, syncPhase |-> -1]

\* SamplingModulator::SamplingModulator and the field initialisers;
\* stepStates is not read before process() has written it
SmInit ==
    /\ clockMode = CLOCK_INTERNAL
    /\ stepParams = [i \in 0 .. numSteps - 1 |-> STATE_ON]
    /\ numEffectiveSteps = numSteps
    /\ currentStep = 0
    /\ stepStates = [i \in 0 .. numSteps - 1 |-> STATE_ON]
    /\ triggerGenerator = 0
    /\ holdDetector = TRUE
    /\ clock = TRUE
    /\ removeDC = TRUE
    /\ deltaPhase \in DeltaPhases
    /\ stepPhase = 0
    /\ heldValue = 0
    /\ halfPhase = FALSE
    /\ holdSum = 0
    /\ smLast = SmLastInit


\* SamplingModulator::process
SmProcess(syncV, holdV, inV) ==
    LET external == clockMode = CLOCK_EXTERNAL
        clk1 == SchmittTriggerProcess(clock, RescaleNum(syncV), RescaleDen)
        synced == ~external /\ clk1.triggered
        phase0 == IF synced THEN 0 ELSE stepPhase
        half0 == IF synced THEN FALSE ELSE halfPhase
        hold1 == SchmittTriggerProcess(holdDetector, RescaleNum(holdV), RescaleDen)
        held1 == IF hold1.triggered THEN inV ELSE heldValue
        sum1 == IF hold1.triggered
                THEN holdSum + HoldDelta(inV, heldValue)
                ELSE holdSum
        scan == ScanSteps(stepParams, 0, 0)
        effective == scan.numEffectiveSteps
        phase1 == phase0 + deltaPhase
        crossing == ~half0 /\ phase1 >= PhaseHalf
        half1 == IF crossing THEN TRUE ELSE half0
        wrap == phase1 >= PhaseOne
        phase2 == IF wrap THEN phase1 - PhaseOne ELSE phase1
        half2 == IF wrap THEN FALSE ELSE half1
        advanceStep == clk1.triggered \/ (wrap /\ AdvanceOnWrap(clockMode))
        step1 == IF advanceStep
                 THEN (currentStep + 1) % StepModulus(effective)
                 ELSE currentStep
        onStep == advanceStep /\ stepParams[step1] = STATE_ON
        sampled == advanceStep /\ SampleOnAdvance(stepParams[step1], hold1.state)
        held2 == IF sampled THEN inV ELSE held1
        sum2 == IF sampled THEN sum1 + HoldDelta(inV, held1) ELSE sum1
        trig1 == IF onStep
                 THEN PulseGeneratorTrigger(triggerGenerator, TriggerSeconds)
                 ELSE triggerGenerator
        trig2 == IF external
                 THEN PulseGeneratorProcess(trig1, SampleTime).remaining
                 ELSE trig1
    IN  /\ clock' = clk1.state
        /\ holdDetector' = hold1.state
        /\ stepStates' = stepParams
        /\ numEffectiveSteps' = effective
        /\ stepPhase' = phase2
        /\ halfPhase' = half2
        /\ currentStep' = step1
        /\ heldValue' = held2
        /\ holdSum' = sum2
        /\ triggerGenerator' = trig2
        /\ smLast' = [valid |-> TRUE,
                      external |-> external,
                      syncEdge |-> clk1.triggered,
                      holdEdge |-> hold1.triggered,
                      wrapped |-> wrap,
                      advanced |-> advanceStep,
                      prevStep |-> currentStep,
                      heldChanged |-> held2 # heldValue,
                      halfIndex |-> IF crossing THEN currentStep ELSE -1,
                      modulus |-> IF advanceStep THEN StepModulus(effective) ELSE 0,
                      dcDivisor |-> IF DcCompensated(removeDC, effective)
                                    THEN effective ELSE -1,
                      syncPhase |-> IF synced THEN phase0 ELSE -1]
        /\ UNCHANGED <<clockMode, stepParams, removeDC, deltaPhase>>

\* the SamplingModulator left alone
SmIdle == SmInit /\ deltaPhase = PhaseHalf

\* one sample
SamplingProcess ==
    \E syncV \in SyncVoltages, holdV \in HoldVoltages, inV \in InVoltages :
        SmProcess(syncV, holdV, inV)

\* the INT/EXT switch is moved between two samples
SetClockMode ==
    /\ \E m \in {CLOCK_EXTERNAL, CLOCK_INTERNAL} : m # clockMode /\ clockMode' = m
    /\ UNCHANGED <<stepParams, numEffectiveSteps, currentStep, stepStates,
                   triggerGenerator, holdDetector, clock, removeDC, deltaPhase, stepPhase,
                   heldValue, halfPhase, holdSum, smLast>>

\* step switches are moved between two samples
SetStepParams ==
    /\ \E c \in StepConfigs : c # stepParams /\ stepParams' = c
    /\ UNCHANGED <<clockMode, numEffectiveSteps, currentStep, stepStates,
                   triggerGenerator, holdDetector, clock, removeDC, deltaPhase, stepPhase,
                   heldValue, halfPhase, holdSum, smLast>>

(***************************************************************************)
(* A MultiGateClock alone, driven as Muxlicer::process drives multiClock:  *)
(* reset() on a main clock edge, then process(), then getGate().           *)
(***************************************************************************)
VARIABLES
    gateClock,              \* the MultiGateClock
    gateDt,                 \* deltaTime of the calls
    gateMode,               \* the argument of the last getGate()
    gateOut,                \* what the last getGate() returned
    gateElapsed,            \* history: time counted down since the last reset(), -1 before it
    gateSteady,             \* history: the gate mode of every getGate() since the last reset(), else -2
    gatePulses              \* history: rising edges of getGate() since the last reset(), while steady

gateVars == <<gateClock, gateDt, gateMode, gateOut, gateElapsed, gateSteady,
              gatePulses>>

\* deltaTime: 0.1 ms and 0.3 ms
GateSampleTimes == {1, 3}
\* getEffectiveClockLength(): 1.6 ms, 4.8 ms, 0.35 ms, and -1 s before the
\* clock period is known
GateLengths == {[n |-> 16, d |-> 1], [n |-> 48, d |-> 1], [n |-> 7, d |-> 2],
                [n |-> ClockSentinel, d |-> 1]}
GateModes == {-1, 0, 1, 2, 3, 8}

GateInit ==
    /\ gateClock = MultiGateClockInit
    /\ gateDt \in GateSampleTimes
    /\ gateMode = -1
    /\ gateOut = 0
    /\ gateElapsed = -1
    /\ gateSteady = -2
    /\ gatePulses = 0

\* the MultiGateClock left alone
GateIdle == GateInit /\ gateDt = 1

\* one sample: lines 371, 392 and 397 of Muxlicer::process
GateStep ==
    \E rearm \in BOOLEAN, len \in GateLengths, mode \in GateModes :
        LET g0 == IF rearm THEN MultiGateClockReset(len) ELSE gateClock
            g1 == MultiGateClockProcess(g0, gateDt)
            out == GetGate(g1, mode)
            rising == out # 0 /\ (rearm \/ gateOut = 0)
            steady == IF rearm \/ mode = gateSteady THEN mode ELSE -2
        IN  /\ gateClock' = g1
            /\ gateMode' = mode
            /\ gateOut' = out
            /\ gateElapsed' = IF rearm
                              THEN (IF g0.remaining > 0 THEN gateDt ELSE 0)
                              ELSE IF gateElapsed # -1 /\ g0.remaining > 0
                                   THEN gateElapsed + gateDt
                                   ELSE gateElapsed
            /\ gateSteady' = steady
            /\ gatePulses' = IF steady = -2
                             THEN 0
                             ELSE (IF rearm THEN 0 ELSE gatePulses)
                                  + (IF rising THEN 1 ELSE 0)
            /\ UNCHANGED gateDt

(***************************************************************************)
(* Muxlicer::getGateMode.  The knob is in tenths, the voltage in tenths of *)
(* a volt, and gate is the fraction n / GateModeDen.                       *)
(***************************************************************************)
VARIABLES
    gateModeParam,          \* params[GATE_MODE_PARAM]
    gateModeConnected,      \* inputs[GATE_MODE_INPUT].isConnected()
    gateModeVoltage,        \* inputs[GATE_MODE_INPUT].getVoltage()
    quadraticGatesOnly,
    gateModeResult          \* what getGateMode() returned, -2 before the call

gateModeVars == <<gateModeParam, gateModeConnected, gateModeVoltage,
                  quadraticGatesOnly, gateModeResult>>

possibleQuadraticGates == <<-1, 1, 2, 4, 8>>
GateModeDen == 500
\* the knob, -1.0 .. 8.0
GateModeParams == -10 .. 80
\* 0 V, 2.5 V, 5 V and 7 V on GATE_MODE_INPUT
GateModeVoltages == {0, 25, 50, 70}

\* roundf(n / d), d > 0: halves away from zero
RoundFraction(n, d) ==
    IF n >= 0 THEN (2 * n + d) \div (2 * d) ELSE -((-2 * n + d) \div (2 * d))

\* gate as a numerator over GateModeDen:
\* rescale(clamp(v, 0, 5) / 5 * rescale(knob, -1, 8, 0, 1), 0, 1, -1, 8), or the knob
GateSelection(connected, voltage, knob) ==
    IF connected
    THEN Clamp(voltage, 0, 50) * (knob + 10) - GateModeDen
    ELSE 50 * knob

\* int(floor(rescale(gate, -1.f, 8.f, 0.f, 4.99f)))
QuadraticGateIndex(n) == ((n + GateModeDen) * 499) \div (9 * GateModeDen * 100)

\* Muxlicer::getGateMode
GetGateMode(connected, voltage, knob, quadratic) ==
    LET gate == GateSelection(connected, voltage, knob)
    IN  IF quadratic
        THEN possibleQuadraticGates[QuadraticGateIndex(gate) + 1]
        ELSE Clamp(RoundFraction(gate, GateModeDen), -1, 8)

GateModeInit ==
    /\ gateModeParam \in GateModeParams
    /\ gateModeConnected \in BOOLEAN
    /\ gateModeVoltage \in GateModeVoltages
    /\ gateModeConnected = FALSE => gateModeVoltage = 0
    /\ quadraticGatesOnly \in BOOLEAN
    /\ gateModeResult = -2

\* getGateMode left alone
GateModeIdle ==
    /\ GateModeInit
    /\ gateModeParam = 0
    /\ gateModeConnected = FALSE
    /\ quadraticGatesOnly = FALSE

\* one call of getGateMode()
GetGateModeCall ==
    /\ gateModeResult = -2
    /\ gateModeResult' = GetGateMode(gateModeConnected, gateModeVoltage,
                                     gateModeParam, quadraticGatesOnly)
    /\ UNCHANGED <<gateModeParam, gateModeConnected, gateModeVoltage,
                   quadraticGatesOnly>>

(***************************************************************************)
(* Specifications                                                          *)
(***************************************************************************)
(* The Muxlicer's outputs: gates, the routed signal and the message for    *)
(* the expander.  Gate voltages are in tenths of a volt, routed voltages   *)
(* in hundredths of a volt (a level in tenths times a voltage in tenths).  *)
(***************************************************************************)
COM_1_IN_8_OUT == 0
COM_8_IN_1_OUT == 1

VARIABLES modeCOMIO, allInNormalVoltage, routingCables, expander,
          gateOutputs, allGatesOutput, muxOutputs, comOutput,
          message, messageFlipRequested, outLast

outVars == <<modeCOMIO, allInNormalVoltage, routingCables, expander,
             gateOutputs, allGatesOutput, muxOutputs, comOutput,
             message, messageFlipRequested, outLast>>

Steps == 0 .. (SEQUENCE_LENGTH - 1)

\* params[LEVEL_PARAMS + i], in tenths: the sliders as the user left them
LevelParam(i) == IF i % 2 = 0 THEN 10 ELSE 5

\* the voltage of the patched COM input and of a patched mux input
ComInputVoltage == 30
MuxInputVoltage == 20

\* Input::getNormalVoltage
NormalVoltage(connected, voltage, normal) ==
    IF connected THEN voltage ELSE normal

\* the inputs of the output stage when nothing is patched and the gate mode
\* knob is at its default
IdleIo ==
    [comInput |-> 0, muxConnected |-> FALSE, muxVoltage |-> 0,
     gateKnob |-> 0, gateConnected |-> FALSE, gateVoltage |-> 0]

MessageInit ==
    [addressIndex |-> 0, allGates |-> 0, outputClock |-> 0, isPlaying |-> FALSE]

OutLastInit ==
    [tap |-> 0, gateMode |-> 0, quadraticIndex |-> 0, stepVolume |-> 0,
     comInput |-> 0, muxConnected |-> FALSE, muxVoltage |-> 0, wrote |-> FALSE,
     processed |-> FALSE]

\* the outputs after construction, with a Mex beside the module or without
OutStartWith(mode, allIn, mex) ==
    /\ modeCOMIO = mode
    /\ allInNormalVoltage = allIn
    /\ routingCables = FALSE
    /\ expander = mex
    /\ gateOutputs = [i \in Steps |-> 0]
    /\ allGatesOutput = 0
    /\ muxOutputs = [i \in Steps |-> 0]
    /\ comOutput = 0
    /\ message = MessageInit
    /\ messageFlipRequested = FALSE
    /\ outLast = OutLastInit

OutStart(mex) == OutStartWith(COM_1_IN_8_OUT, 10, mex)

OutInit == OutStart(FALSE)

OutIdle == OutInit

OutState ==
    [modeCOMIO |-> modeCOMIO, allInNormalVoltage |-> allInNormalVoltage,
     expander |-> expander, quadraticGatesOnly |-> quadraticGatesOnly,
     gateOutputs |-> gateOutputs, allGatesOutput |-> allGatesOutput,
     muxOutputs |-> muxOutputs, comOutput |-> comOutput,
     message |-> message, messageFlipRequested |-> messageFlipRequested]

\* message->allGates = multiClock.getGate(gateMode)
MessageGatesAsOutput(g, gm, playing) ==
    IF playing THEN GetGate(g, gm) ELSE 0

MessageGates(g, gm, playing) == GetGate(g, gm)

\* Muxlicer::process lines 385-421 and 428-440: the outputs after the call,
\* from the outputs o before it and the fields n the call has computed
OutputStep(o, n, io, tap) ==
    LET gm == GetGateMode(io.gateConnected, io.gateVoltage, io.gateKnob,
                                o.quadraticGatesOnly)
        playing == n.playState # STATE_STOPPED
        gateValue == GetGate(n.multiClock, gm)
        stepVolume == LevelParam(n.addressIndex)
        allInValue == NormalVoltage(FALSE, 0, 10 * o.allInNormalVoltage)
        stepValue == NormalVoltage(io.muxConnected, io.muxVoltage, allInValue)
                     * stepVolume
    IN  [gateOutputs |-> [i \in Steps |->
                            IF playing /\ i = n.addressIndex THEN gateValue ELSE 0],
         allGatesOutput |-> IF playing THEN gateValue ELSE 0,
         muxOutputs |-> IF o.modeCOMIO = COM_1_IN_8_OUT
                        THEN [i \in Steps |->
                                IF playing /\ i = n.addressIndex
                                THEN stepVolume * io.comInput ELSE 0]
                        ELSE o.muxOutputs,
         comOutput |-> IF o.modeCOMIO = COM_8_IN_1_OUT /\ playing
                       THEN stepValue
                       ELSE o.comOutput,
         message |-> IF o.expander
                     THEN [addressIndex |-> n.addressIndex,
                           allGates |-> MessageGates(n.multiClock, gm, playing),
                           outputClock |-> n.clockOutput,
                           isPlaying |-> playing]
                     ELSE o.message,
         messageFlipRequested |-> IF o.expander THEN TRUE
                                  ELSE o.messageFlipRequested,
         outLast |-> [tap |-> tap, gateMode |-> gm,
                      quadraticIndex |->
                          QuadraticGateIndex(GateSelection(io.gateConnected,
                                                 io.gateVoltage, io.gateKnob)),
                      stepVolume |-> stepVolume,
                      comInput |-> io.comInput,
                      muxConnected |-> io.muxConnected,
                      muxVoltage |-> io.muxVoltage,
                      wrote |-> o.expander,
                      processed |-> TRUE]]

\* Muxlicer::process(args) with args.sampleTime = SampleTime
MuxProcess(clockV, resetV, play, address, tap, io) ==
    \E n \in {MuxStep(MuxState, clockV, resetV, play, address, tap)} :
      \E o \in {OutputStep(OutState, n, io, tap)} :
        /\ inputClockTrigger' = n.inputClockTrigger
        /\ tapTempoTrigger' = n.tapTempoTrigger
        /\ resetTrigger' = n.resetTrigger
        /\ playStateTrigger' = n.playStateTrigger
        /\ mainClockTrigger' = n.mainClockTrigger
        /\ playState' = n.playState
        /\ runIndex' = n.runIndex
        /\ addressIndex' = n.addressIndex
        /\ reset' = n.reset
        /\ internalClockProgress' = n.internalClockProgress
        /\ internalClockLength' = n.internalClockLength
        /\ tapTime' = n.tapTime
        /\ mainClockMultDiv' = n.mainClockMultDiv
        /\ outputClockMultDiv' = n.outputClockMultDiv
        /\ multiClock' = n.multiClock
        /\ endOfCyclePulse' = n.endOfCyclePulse
        /\ eocOutput' = n.eocOutput
        /\ clockOutput' = n.clockOutput
        /\ last' = n.last
        /\ onceEdges' = n.onceEdges
        /\ onceEocs' = n.onceEocs
        /\ stoppedIndex' = n.stoppedIndex
        /\ gateOutputs' = o.gateOutputs
        /\ allGatesOutput' = o.allGatesOutput
        /\ muxOutputs' = o.muxOutputs
        /\ comOutput' = o.comOutput
        /\ message' = o.message
        /\ messageFlipRequested' = o.messageFlipRequested
        /\ outLast' = o.outLast
        /\ UNCHANGED <<clockConnected, modeCOMIO, allInNormalVoltage,
                       routingCables, expander>>

\* one sample: the engine calls process() with the voltages of that sample,
\* the clock input on its steady clock and nothing patched to the routing
\* ports.  TAP_TEMPO_PARAM is read only without a cable on CLOCK_INPUT.
Process ==
    \E tap \in (IF clockConnected THEN {0} ELSE TapValues),
       resetV \in ResetVoltages, play \in PlayParams, address \in AddressValues :
        /\ MuxProcess(ClockVoltage(clockPhase), resetV, play, address, tap, IdleIo)
        /\ clockPhase' = (clockPhase + 1) % ClockPeriod

\* the positions of the gate mode knob, in tenths: always on, two gates a step
TapGateKnobs == {0, 20}

\* one sample with the tap tempo button pressed or not
ProcessTap ==
    \E tap \in TapValues, resetV \in ResetVoltages, play \in PlayParams,
       knob \in TapGateKnobs :
        /\ MuxProcess(ClockVoltage(clockPhase), resetV, play, -1, tap,
                      [IdleIo EXCEPT !.gateKnob = knob])
        /\ clockPhase' = (clockPhase + 1) % ClockPeriod

\* one sample with the routing ports patched or not
ProcessOut ==
    \E play \in PlayParams :
        /\ MuxProcess(ClockVoltage(clockPhase), 0, play, -1, 0,
                      [comInput |-> IF routingCables THEN ComInputVoltage ELSE 0,
                       muxConnected |-> routingCables,
                       muxVoltage |-> IF routingCables THEN MuxInputVoltage ELSE 0,
                       gateKnob |-> 0, gateConnected |-> FALSE,
                       gateVoltage |-> 0])
        /\ clockPhase' = (clockPhase + 1) % ClockPeriod

\* the gate mode knob and the gate mode input of one sample
\* (knob in tenths, input connected, input voltage in tenths of a volt)
GateIos == {<<0, FALSE, 0>>, <<-10, FALSE, 0>>, <<20, FALSE, 0>>,
            <<80, TRUE, 70>>}

MexAddresses == {-1, 120}

\* one sample with any position of the gate mode knob
ProcessMex ==
    \E play \in PlayParams, address \in MexAddresses, gate \in GateIos :
        /\ MuxProcess(ClockVoltage(clockPhase), 0, play, address, 0,
                      [comInput |-> 0, muxConnected |-> FALSE, muxVoltage |-> 0,
                       gateKnob |-> gate[1], gateConnected |-> gate[2],
                       gateVoltage |-> gate[3]])
        /\ clockPhase' = (clockPhase + 1) % ClockPeriod

\* MuxlicerWidget::clearCables: the cables on the routing ports are removed,
\* and when the engine has removed a cable it zeroes every port left without
\* one (Engine::removeCable, Port::setDisconnected)
ClearCables ==
    /\ routingCables' = FALSE
    /\ IF routingCables
       THEN /\ muxOutputs' = [i \in Steps |-> 0]
            /\ comOutput' = 0
       ELSE UNCHANGED <<muxOutputs, comOutput>>

MenuFrame ==
    /\ outLast' = [outLast EXCEPT !.processed = FALSE]
    /\ UNCHANGED <<muxVars, allInNormalVoltage, expander, gateOutputs,
                   allGatesOutput, message, messageFlipRequested>>

\* IOMenuItem::onAction
IOMenuItem ==
    /\ modeCOMIO' = COM_1_IN_8_OUT
    /\ ClearCables
    /\ MenuFrame
    /\ UNCHANGED gateModeVars

\* OIMenuItem::onAction
OIMenuItem ==
    /\ modeCOMIO' = COM_8_IN_1_OUT
    /\ ClearCables
    /\ MenuFrame
    /\ UNCHANGED gateModeVars

\* the user patches the routing ports that the mode shows; the engine zeroes
\* the ports left without a cable (Engine::addCable)
PlugCables ==
    /\ ~routingCables
    /\ routingCables' = TRUE
    /\ IF modeCOMIO = COM_1_IN_8_OUT
       THEN comOutput' = 0 /\ UNCHANGED muxOutputs
       ELSE muxOutputs' = [i \in Steps |-> 0] /\ UNCHANGED comOutput
    /\ UNCHANGED modeCOMIO
    /\ MenuFrame
    /\ UNCHANGED gateModeVars

\* QuadraticGatesMenuItem::onAction
QuadraticGatesMenuItem ==
    /\ quadraticGatesOnly' = ~quadraticGatesOnly
    /\ UNCHANGED <<gateModeParam, gateModeConnected, gateModeVoltage, gateModeResult>>
    /\ UNCHANGED <<muxVars, outVars>>

(***************************************************************************)
(* The edge detectors alone: the two SchmittTriggers of the                *)
(* SamplingModulator, each fed the rescaled voltage of its input in every  *)
(* sample (the Muxlicer feeds its clock and reset detectors the same way). *)
(***************************************************************************)
VARIABLES edgeState, edgeFired, edgeIn, edgeLowSeen, edgeLowBefore

edgeVars == <<edgeState, edgeFired, edgeIn, edgeLowSeen, edgeLowBefore>>

Detectors == {"clock", "holdDetector"}

\* inputs[SYNC_INPUT].getVoltage(), inputs[HOLD_INPUT].getVoltage(), in
\* tenths of a volt: below, at and between the two thresholds, and above
EdgeVoltages == {-10, 0, RescaleLow, 2, 10, 19, RescaleHigh, 50}

EdgeInit ==
    /\ edgeState = [d \in Detectors |-> TRUE]
    /\ edgeFired = [d \in Detectors |-> FALSE]
    /\ edgeIn = [d \in Detectors |-> 0]
    /\ edgeLowSeen = [d \in Detectors |-> TRUE]
    /\ edgeLowBefore = [d \in Detectors |-> TRUE]

EdgeIdle == EdgeInit

\* one sample: clock.process(rescale(sync, 0.1f, 2.f, 0.f, 1.f)) and
\* holdDetector.process(rescale(hold, 0.1f, 2.f, 0.f, 1.f)).  edgeLowSeen
\* tells whether the signal has been at or below the lower threshold since
\* the detector last reported true.
EdgeProcess ==
    \E v \in [Detectors -> EdgeVoltages] :
        LET r == [d \in Detectors |->
                    SchmittTriggerProcess(edgeState[d], RescaleNum(v[d]), RescaleDen)]
        IN  /\ edgeState' = [d \in Detectors |-> r[d].state]
            /\ edgeFired' = [d \in Detectors |-> r[d].triggered]
            /\ edgeIn' = v
            /\ edgeLowBefore' = edgeLowSeen
            /\ edgeLowSeen' = [d \in Detectors |->
                                 IF r[d].triggered THEN FALSE
                                 ELSE edgeLowSeen[d] \/ v[d] <= RescaleLow]

(***************************************************************************)
(* Saving and loading the settings.  A JSON object is a function from its  *)
(* keys to values; a value has a type and, for an integer, a number.       *)
(***************************************************************************)
VARIABLES
    rootJ,          \* the document last saved or put in the patch file
    jsonSource,     \* where rootJ comes from: "none", "saved" or "foreign"
    jsonSaved,      \* the settings when dataToJson() was last called
    jsonLoaded      \* the last load: the source of its document ("none" when
                    \* rootJ has changed since or nothing was loaded), whether
                    \* the module is as constructed, and was when loading

jsonVars == <<rootJ, jsonSource, jsonSaved, jsonLoaded>>

JsonKeys == {"modeCOMIO", "quadraticGatesOnly", "allInNormalVoltage",
             "mainClockMultDiv", "outputClockMultDiv", "playState"}

\* json_integer, json_boolean; what json_object_get returns for a missing key
JsonInteger(n) == [type |-> "integer", value |-> n]
JsonBoolean(b) == [type |-> IF b THEN "true" ELSE "false", value |-> 0]
JsonNull == [type |-> "NULL", value |-> 0]

\* json_object_get
JsonObjectGet(root, key) ==
    IF key \in DOMAIN root THEN root[key] ELSE JsonNull

\* json_integer_value: 0 unless the value is an integer
JsonIntegerValue(j) == IF j.type = "integer" THEN j.value ELSE 0

\* json_boolean_value, which is json_is_true
JsonBooleanValueIsBoolean(j) == j.type \in {"true", "false"}

JsonBooleanValue(j) == j.type = "true"

\* the six settings of the module
Settings ==
    [modeCOMIO |-> modeCOMIO,
     quadraticGatesOnly |-> quadraticGatesOnly,
     allInNormalVoltage |-> allInNormalVoltage,
     mainClockMultDiv |-> mainClockMultDiv.multDiv,
     outputClockMultDiv |-> outputClockMultDiv.multDiv,
     playState |-> playState]

\* the field initialisers
DefaultSettings ==
    [modeCOMIO |-> COM_1_IN_8_OUT,
     quadraticGatesOnly |-> FALSE,
     allInNormalVoltage |-> 10,
     mainClockMultDiv |-> 1,
     outputClockMultDiv |-> 1,
     playState |-> STATE_STOPPED]

\* Muxlicer::dataToJson
DataToJson(st) ==
    [k \in JsonKeys |->
        IF k = "quadraticGatesOnly" THEN JsonBoolean(st[k]) ELSE JsonInteger(st[k])]

\* Muxlicer::dataFromJson
DataFromJson(root) ==
    [k \in JsonKeys |->
        IF k = "quadraticGatesOnly"
        THEN JsonBooleanValue(JsonObjectGet(root, k))
        ELSE JsonIntegerValue(JsonObjectGet(root, k))]

\* MuxlicerWidget::getClockOptions
ClockOptions == {-16, -8, -4, -3, -2, 1, 2, 3, 4, 8, 16}

\* OutputRangeItem: voltageOptions
VoltageOptions == {1, 5, 10}

\* the settings the module is saved with
SavedModes == {COM_1_IN_8_OUT, COM_8_IN_1_OUT}
SavedMainRatios == {-2, 1, 16}
SavedOutputRatios == {1, -16}
SavedPlayStates == {STATE_PLAY_ONCE, STATE_STOPPED, STATE_PLAY}

\* documents that dataToJson() did not write: keys missing, a key the
\* module does not know, and integers that no menu offers
ForeignKeySets ==
    {{}, JsonKeys, {"unknown"}} \cup {JsonKeys \ {k} : k \in JsonKeys}

ForeignValue(k, arbitrary) ==
    IF k = "quadraticGatesOnly" THEN JsonBoolean(TRUE)
    ELSE IF k = "modeCOMIO" THEN JsonInteger(COM_8_IN_1_OUT)
    ELSE IF k = "allInNormalVoltage" THEN JsonInteger(IF arbitrary THEN 7 ELSE 5)
    ELSE IF k = "mainClockMultDiv" THEN JsonInteger(IF arbitrary THEN 5 ELSE -2)
    ELSE IF k = "outputClockMultDiv" THEN JsonInteger(IF arbitrary THEN -1 ELSE 16)
    ELSE IF k = "playState" THEN JsonInteger(IF arbitrary THEN 3 ELSE STATE_PLAY)
    ELSE JsonInteger(1)

ForeignDocs ==
    {[k \in ks |-> ForeignValue(k, arbitrary)] :
        ks \in ForeignKeySets, arbitrary \in BOOLEAN}

JsonInit ==
    /\ rootJ = << >>
    /\ jsonSource = "none"
    /\ jsonSaved = DefaultSettings
    /\ jsonLoaded = [source |-> "none", fresh |-> FALSE, ontoFresh |-> FALSE]

JsonIdle == JsonInit

\* the assignments dataFromJson makes, and Muxlicer::Muxlicer for these six
AssignSettings(st) ==
    /\ modeCOMIO' = st.modeCOMIO
    /\ quadraticGatesOnly' = st.quadraticGatesOnly
    /\ allInNormalVoltage' = st.allInNormalVoltage
    /\ mainClockMultDiv' = [mainClockMultDiv EXCEPT !.multDiv = st.mainClockMultDiv]
    /\ outputClockMultDiv' = [outputClockMultDiv EXCEPT !.multDiv = st.outputClockMultDiv]
    /\ playState' = st.playState
    /\ UNCHANGED <<clockConnected, clockPhase, inputClockTrigger, tapTempoTrigger,
                   resetTrigger, playStateTrigger, mainClockTrigger, runIndex,
                   addressIndex, reset, internalClockProgress, internalClockLength,
                   tapTime, multiClock, endOfCyclePulse, eocOutput, clockOutput,
                   last, onceEdges, onceEocs, stoppedIndex>>
    /\ UNCHANGED <<gateModeParam, gateModeConnected, gateModeVoltage, gateModeResult>>
    /\ UNCHANGED <<routingCables, expander, gateOutputs, allGatesOutput, muxOutputs,
                   comOutput, message, messageFlipRequested, outLast>>

\* the patch is saved: dataToJson()
DataToJsonCall ==
    /\ rootJ' = DataToJson(Settings)
    /\ jsonSource' = "saved"
    /\ jsonSaved' = Settings
    /\ jsonLoaded' = [jsonLoaded EXCEPT !.source = "none"]
    /\ UNCHANGED <<muxVars, gateModeVars, outVars>>

\* the patch file is written by something else
EditPatch ==
    /\ rootJ' \in ForeignDocs
    /\ jsonSource' = "foreign"
    /\ jsonSaved' = DefaultSettings
    /\ jsonLoaded' = [jsonLoaded EXCEPT !.source = "none"]
    /\ UNCHANGED <<muxVars, gateModeVars, outVars>>

\* the patch is opened: a new module is constructed
Construct ==
    /\ AssignSettings(DefaultSettings)
    /\ jsonLoaded' = [source |-> "none", fresh |-> TRUE, ontoFresh |-> FALSE]
    /\ UNCHANGED <<rootJ, jsonSource, jsonSaved>>

\* and dataFromJson(rootJ) is called on it
DataFromJsonCall ==
    /\ jsonSource # "none"
    /\ AssignSettings(DataFromJson(rootJ))
    /\ jsonLoaded' = [source |-> jsonSource, fresh |-> FALSE,
                      ontoFresh |-> jsonLoaded.fresh]
    /\ UNCHANGED <<rootJ, jsonSource, jsonSaved>>

(***************************************************************************)
(* The clock period tracking of the Muxlicer: the cable on CLOCK_INPUT     *)
(* comes and goes, the clock and the tap tempo button are free.  tempo is  *)
(* the history of the accepted pulses, counted in process() calls.         *)
(***************************************************************************)
VARIABLES tempo

tempoVars == <<tempo>>

\* the cable on CLOCK_INPUT is pulled or plugged at most this often
MaxCableChanges == 2

\* the number of calls after which 2 s have passed
TempoCap == (TapTimeLimit + SampleTime - 1) \div SampleTime

\* any:       a pulse has been accepted
\* since:     calls since the last accepted pulse (at most TempoCap)
\* pulse:     the last call accepted a pulse
\* previous:  there was an accepted pulse before that one
\* T:         the time between the two (TempoCap calls stand for 2 s or more)
\* before:    internalClockLength before the last call
\* measured:  the last T below 2 s, 0 if none
\* source:    where it was measured
\* run:       calls since the internal clock progress restarted, the last
\*            call included; rest: the same after the tick of the last call
\* changes:   the times the cable was pulled or plugged
TempoInit ==
    [processed |-> FALSE, any |-> FALSE, since |-> TempoCap, pulse |-> FALSE,
     previous |-> FALSE, T |-> 0, before |-> InternalClockLengthInit,
     measured |-> 0, source |-> "init", run |-> 0, rest |-> 0, changes |-> 0]

TempoIdle == tempo = TempoInit

ClockVoltages == {0, 50}

\* the voltages CLOCK_INPUT may carry in one sample: 0 without a cable, and
\* a clock has an edge within 2 s and two samples
TempoClockVoltages ==
    IF ~clockConnected THEN {0}
    ELSE IF tempo.since >= TempoCap
         THEN {IF inputClockTrigger THEN 0 ELSE 50}
         ELSE ClockVoltages

\* an accepted pulse: a detected edge of the clock input when it is
\* connected, a fresh press of the tap tempo button otherwise
AcceptedPulse(clockV, tap) ==
    IF clockConnected
    THEN SchmittTriggerProcess(inputClockTrigger, RescaleNum(clockV), RescaleDen).triggered
    ELSE tap # 0 /\ ~tapTempoTrigger

\* one sample, the play switch left alone and the address knob on step 0
ProcessTempo ==
    \E clockV \in TempoClockVoltages,
       tap \in (IF clockConnected THEN {0} ELSE TapValues) :
        /\ MuxProcess(clockV, 0, STATE_STOPPED, 0, tap, IdleIo)
        /\ clockPhase' = clockPhase
        /\ LET pulse == AcceptedPulse(clockV, tap)
               elapsed == Min(tempo.since + 1, TempoCap)
               good == pulse /\ tempo.any /\ elapsed < TempoCap
               run == Min((IF pulse THEN 0 ELSE tempo.rest) + 1, TempoCap + 1)
               tick == internalClockProgress' = 0
           IN  tempo' = [processed |-> TRUE,
                         any |-> tempo.any \/ pulse,
                         since |-> IF pulse THEN 0 ELSE elapsed,
                         pulse |-> pulse,
                         previous |-> tempo.any,
                         T |-> elapsed * SampleTime,
                         before |-> internalClockLength,
                         measured |-> IF good THEN elapsed * SampleTime
                                      ELSE tempo.measured,
                         source |-> IF ~good THEN tempo.source
                                    ELSE IF clockConnected THEN "clock" ELSE "tap",
                         run |-> run,
                         rest |-> IF tick THEN 0 ELSE run,
                         changes |-> tempo.changes]

\* the cable is pulled from CLOCK_INPUT
DisconnectClock ==
    /\ clockConnected
    /\ tempo.changes < MaxCableChanges
    /\ clockConnected' = FALSE
    /\ tempo' = [tempo EXCEPT !.processed = FALSE, !.changes = @ + 1]
    /\ UNCHANGED <<clockPhase, inputClockTrigger, tapTempoTrigger, resetTrigger,
                   playStateTrigger, mainClockTrigger, playState, runIndex,
                   addressIndex, reset, internalClockProgress, internalClockLength,
                   tapTime, mainClockMultDiv, outputClockMultDiv, multiClock,
                   endOfCyclePulse, eocOutput, clockOutput, last, onceEdges,
                   onceEocs, stoppedIndex, outVars>>

\* a cable is plugged into CLOCK_INPUT
ConnectClock ==
    /\ ~clockConnected
    /\ tempo.changes < MaxCableChanges
    /\ clockConnected' = TRUE
    /\ tempo' = [tempo EXCEPT !.processed = FALSE, !.changes = @ + 1]
    /\ UNCHANGED <<clockPhase, inputClockTrigger, tapTempoTrigger, resetTrigger,
                   playStateTrigger, mainClockTrigger, playState, runIndex,
                   addressIndex, reset, internalClockProgress, internalClockLength,
                   tapTime, mainClockMultDiv, outputClockMultDiv, multiClock,
                   endOfCyclePulse, eocOutput, clockOutput, last, onceEdges,
                   onceEocs, stoppedIndex, outVars>>

(***************************************************************************)
vars == <<muxVars, clockVars, smVars, gateVars, gateModeVars, outVars, edgeVars,
         jsonVars, tempoVars>>

\* the Muxlicer, one process() call per sample
Init == MuxInit /\ EdgeIdle /\ JsonIdle /\ TempoIdle /\ ClockIdle /\ SmIdle /\ GateIdle /\ GateModeIdle /\ OutIdle

Next == Process /\ UNCHANGED <<clockVars, smVars, gateVars, gateModeVars, edgeVars, jsonVars, tempoVars>>

Spec == Init /\ [][Next]_vars

\* a MultDivClock with a fixed ratio on a steady input clock
InitSteady == MuxInit /\ EdgeIdle /\ JsonIdle /\ TempoIdle /\ SmIdle /\ GateIdle /\ GateModeIdle /\ OutIdle /\ SteadyInit

NextSteady == SteadyStep /\ UNCHANGED <<muxVars, smVars, gateVars, gateModeVars, outVars, edgeVars, jsonVars, tempoVars>>

SpecSteady == InitSteady /\ [][NextSteady]_vars

\* a MultDivClock with ratio 0 beside one with ratio 1, any calls
InitFree == MuxInit /\ EdgeIdle /\ JsonIdle /\ TempoIdle /\ SmIdle /\ GateIdle /\ GateModeIdle /\ OutIdle /\ FreeInit

NextFree == FreeStep /\ UNCHANGED <<muxVars, smVars, gateVars, gateModeVars, outVars, edgeVars, jsonVars, tempoVars>>

SpecFree == InitFree /\ [][NextFree]_vars

\* a MultDivClock with any fixed ratio, any calls, from construction
StartInit ==
    /\ \E r \in StartRatios : clk = MultDivClockInit(r)
    /\ clkOut = 0
    /\ clkTwin = MultDivClockInit(1)
    /\ twinOut = 0
    /\ clkDt = 0
    /\ clkPeriod = 0
    /\ clkPhase = 0
    /\ clkEdges = 0
    /\ clkPulses = 0
    /\ clkDone = -1

InitStart == MuxInit /\ EdgeIdle /\ JsonIdle /\ TempoIdle /\ SmIdle /\ GateIdle /\ GateModeIdle /\ OutIdle /\ StartInit

NextStart == FreeStep /\ UNCHANGED <<muxVars, smVars, gateVars, gateModeVars, outVars, edgeVars, jsonVars, tempoVars>>

SpecStart == InitStart /\ [][NextStart]_vars

\* the SamplingModulator: samples, and the panel switches between them
InitSm == MuxInit /\ EdgeIdle /\ JsonIdle /\ TempoIdle /\ ClockIdle /\ GateIdle /\ GateModeIdle /\ OutIdle /\ SmInit

NextSm ==
    /\ \/ SamplingProcess
       \/ SetClockMode
       \/ SetStepParams
    /\ UNCHANGED <<muxVars, clockVars, gateVars, gateModeVars, outVars, edgeVars, jsonVars, tempoVars>>

SpecSm == InitSm /\ [][NextSm]_vars

\* a MultiGateClock alone
InitGate == MuxInit /\ EdgeIdle /\ JsonIdle /\ TempoIdle /\ ClockIdle /\ SmIdle /\ GateModeIdle /\ OutIdle /\ GateInit

NextGate == GateStep /\ UNCHANGED <<muxVars, clockVars, smVars, gateModeVars, outVars, edgeVars, jsonVars, tempoVars>>

SpecGate == InitGate /\ [][NextGate]_vars

\* the Muxlicer with the tap tempo button in use beside the clock input, and
\* a Mex beside it or not
OutMuxInit == MuxInit /\ mainClockMultDiv = MultDivClockInit(1)

InitTap ==
    /\ OutMuxInit /\ EdgeIdle /\ JsonIdle /\ TempoIdle /\ ClockIdle /\ SmIdle /\ GateIdle /\ GateModeIdle
    /\ \E mex \in BOOLEAN : OutStart(mex)

NextTap == ProcessTap /\ UNCHANGED <<clockVars, smVars, gateVars, gateModeVars, edgeVars, jsonVars, tempoVars>>

SpecTap == InitTap /\ [][NextTap]_vars

\* the Muxlicer with its routing modes and the cables on the routing ports
InitOut == OutMuxInit /\ EdgeIdle /\ JsonIdle /\ TempoIdle /\ ClockIdle /\ SmIdle /\ GateIdle /\ GateModeIdle /\ OutInit

NextOut ==
    /\ \/ ProcessOut /\ UNCHANGED gateModeVars
       \/ IOMenuItem
       \/ OIMenuItem
       \/ PlugCables
    /\ UNCHANGED <<clockVars, smVars, gateVars, edgeVars, jsonVars, tempoVars>>

SpecOut == InitOut /\ [][NextOut]_vars

\* the Muxlicer with its gate modes
InitMex == OutMuxInit /\ EdgeIdle /\ JsonIdle /\ TempoIdle /\ ClockIdle /\ SmIdle /\ GateIdle /\ GateModeIdle /\ OutInit

NextMex ==
    /\ \/ ProcessMex /\ UNCHANGED gateModeVars
       \/ QuadraticGatesMenuItem
    /\ UNCHANGED <<clockVars, smVars, gateVars, edgeVars, jsonVars, tempoVars>>

SpecMex == InitMex /\ [][NextMex]_vars

\* the edge detectors, any input voltages
InitEdge ==
    /\ MuxInit /\ ClockIdle /\ SmIdle /\ GateIdle /\ GateModeIdle /\ OutIdle
    /\ JsonIdle /\ TempoIdle /\ EdgeInit

NextEdge ==
    /\ EdgeProcess
    /\ UNCHANGED <<muxVars, clockVars, smVars, gateVars, gateModeVars, outVars, jsonVars, tempoVars>>

SpecEdge == InitEdge /\ [][NextEdge]_vars

\* a module with any settings, saved and loaded
InitJson ==
    /\ \E ps \in SavedPlayStates, mainRatio \in SavedMainRatios,
          outRatio \in SavedOutputRatios :
           MuxStart(ps, mainRatio, outRatio)
    /\ \E mode \in SavedModes, allIn \in VoltageOptions :
           OutStartWith(mode, allIn, FALSE)
    /\ GateModeInit /\ gateModeParam = 0 /\ gateModeConnected = FALSE
    /\ ClockIdle /\ SmIdle /\ GateIdle /\ EdgeIdle /\ TempoIdle
    /\ JsonInit

NextJson ==
    /\ \/ DataToJsonCall
       \/ EditPatch
       \/ Construct
       \/ DataFromJsonCall
    /\ UNCHANGED <<clockVars, smVars, gateVars, edgeVars, tempoVars>>

SpecJson == InitJson /\ [][NextJson]_vars

\* the Muxlicer with its clock period tracking
InitTempo ==
    /\ OutMuxInit /\ EdgeIdle /\ JsonIdle /\ ClockIdle /\ SmIdle /\ GateIdle /\ GateModeIdle /\ OutInit
    /\ tempo = TempoInit

NextTempo ==
    /\ \/ ProcessTempo
       \/ DisconnectClock
       \/ ConnectClock
    /\ UNCHANGED <<clockVars, smVars, gateVars, gateModeVars, edgeVars, jsonVars>>

SpecTempo == InitTempo /\ [][NextTempo]_vars

\* getGateMode() for any knob position, gate mode voltage and menu setting
InitGateMode == MuxInit /\ EdgeIdle /\ JsonIdle /\ TempoIdle /\ ClockIdle /\ SmIdle /\ GateIdle /\ OutIdle /\ GateModeInit

NextGateMode ==
    GetGateModeCall /\ UNCHANGED <<muxVars, clockVars, smVars, gateVars, outVars, edgeVars, jsonVars, tempoVars>>

SpecGateMode == InitGateMode /\ [][NextGateMode]_vars

(***************************************************************************)
(* Claims about the play state machine, checked under Spec.                *)
(***************************************************************************)
\* the last call applied a reset: the reset input rose, or the play switch
\* was freshly moved to its PLAY_ONCE (reset) position
ResetApplied ==
    last.resetEdge \/ (last.switchFired /\ last.play = STATE_PLAY_ONCE)

\* the last call saw a rising edge of the main clock with the address below 0
Qualifying == last.mainEdge /\ last.address < 0

\* C1: from STOPPED, a fresh activation of the play switch in the PLAY_ONCE
\* position gives PLAY_ONCE with the run index reset (0, or 1 when a
\* qualifying clock edge falls in the same sample); with the address below 0
\* and no further switch press or reset the state stays PLAY_ONCE through 7
\* rising edges of the main clock without any end-of-cycle pulse, and on the
\* 8th edge it is STOPPED with exactly one end-of-cycle pulse triggered.
C1_OneShotCycle ==
    /\ (/\ last.valid
        /\ last.playState = STATE_STOPPED
        /\ ~last.resetEdge
        /\ last.switchFired
        /\ last.play = STATE_PLAY_ONCE)
       => /\ playState = STATE_PLAY_ONCE
          /\ runIndex = (IF Qualifying THEN 1 ELSE 0)
    /\ onceEdges \in 0 .. (SEQUENCE_LENGTH - 1)
       => /\ playState = STATE_PLAY_ONCE
          /\ onceEocs = 0
          /\ runIndex = onceEdges
    /\ onceEdges = SEQUENCE_LENGTH
       => /\ playState = STATE_STOPPED
          /\ onceEocs = 1
          /\ last.eocTriggered

C1_Witness ==
    /\ onceEdges = SEQUENCE_LENGTH
    /\ playState = STATE_STOPPED
    /\ onceEocs = 1

\* C2: resuming from STOPPED with the play switch in the PLAY position gives
\* PLAYING with the run index it had when the module became STOPPED, however
\* many clock edges arrived while it was STOPPED (no reset in between).
C2_ResumeWhereLeftOff ==
    (/\ last.valid
     /\ last.playState = STATE_STOPPED
     /\ stoppedIndex # -1
     /\ ~last.resetEdge
     /\ last.switchFired
     /\ last.play = STATE_PLAY)
    => /\ playState = STATE_PLAY
       /\ last.runIndex = stoppedIndex

\* C3: a rising edge on the reset input resets the run index in that call
\* (it is 0 afterwards, or 1 when a qualifying clock edge follows in the same
\* call); the reset input alone takes STOPPED to PLAY_ONCE and leaves
\* PLAYING and PLAY_ONCE as they are.
C3_ExternalReset ==
    (last.valid /\ last.resetEdge)
    => /\ runIndex = (IF Qualifying THEN 1 ELSE 0)
       /\ ~last.switchFired
          => playState = (IF last.playState = STATE_STOPPED
                          THEN STATE_PLAY_ONCE
                          ELSE last.playState)

C3_Witness ==
    /\ last.valid
    /\ last.resetEdge
    /\ ~last.switchFired
    /\ last.playState = STATE_STOPPED
    /\ last.runIndex = 5
    /\ playState = STATE_PLAY_ONCE
    /\ runIndex = 0

\* C4: while not STOPPED, a fresh activation of the play switch in the PLAY
\* position stops the module and does not touch the run index (only a
\* qualifying clock edge of the same sample moves it on by one), and a fresh
\* activation in the PLAY_ONCE position resets the run index and keeps the
\* running mode.
C4_SwitchWhileRunning ==
    (/\ last.valid
     /\ last.switchFired
     /\ ~last.resetEdge
     /\ last.playState # STATE_STOPPED)
    => /\ last.play = STATE_PLAY
          => /\ playState = STATE_STOPPED
             /\ runIndex = (IF Qualifying
                            THEN (last.runIndex + 1) % SEQUENCE_LENGTH
                            ELSE last.runIndex)
       /\ last.play = STATE_PLAY_ONCE
          => /\ playState = last.playState
             /\ runIndex = (IF Qualifying THEN 1 ELSE 0)

C4_Witness ==
    /\ last.valid
    /\ last.switchFired
    /\ ~last.resetEdge
    /\ last.playState = STATE_PLAY
    /\ last.play = STATE_PLAY_ONCE
    /\ last.runIndex = 3
    /\ playState = STATE_PLAY
    /\ runIndex = 0

\* C5: the play switch acts once per activation: in a sample without reset
\* edge and without main clock edge, the play state or the run index changes
\* only if the switch is in a non-neutral position and was in its neutral
\* position in the sample before.
C5_SwitchDebounce ==
    (/\ last.valid
     /\ ~last.resetEdge
     /\ ~last.mainEdge
     /\ (playState # last.playState \/ runIndex # last.runIndex))
    => /\ last.play # STATE_STOPPED
       /\ ~last.switchHeld
       /\ last.switchFired

C5_Witness ==
    /\ last.valid
    /\ last.switchHeld
    /\ ~last.resetEdge
    /\ ~last.mainEdge
    /\ last.play = STATE_PLAY
    /\ playState = STATE_PLAY
    /\ last.playState = STATE_PLAY

\* the index nearest to an address a >= 0 given in tenths (a half rounds
\* up), clamped to 7
NearestStep(a, i) ==
    /\ i \in 0 .. (SEQUENCE_LENGTH - 1)
    /\ \/ (a - 10 * i) \in -5 .. 4
       \/ i = SEQUENCE_LENGTH - 1 /\ a >= 10 * i

\* C6: the run index moves on only in a sample with a rising edge of the
\* main clock and the address below 0; with the address at or above 0 a
\* clock edge changes neither run index nor play state and triggers no
\* end-of-cycle pulse, and the active step is the address rounded and
\* clamped to [0,7].
C6_StepAdvanceGating ==
    last.valid
    => /\ (runIndex # last.runIndex /\ ~ResetApplied) => Qualifying
       /\ (Qualifying /\ ~ResetApplied)
          => runIndex = (last.runIndex + 1) % SEQUENCE_LENGTH
       /\ last.address >= 0
          => /\ ~last.eocTriggered
             /\ ~ResetApplied => runIndex = last.runIndex
             /\ (~last.resetEdge /\ ~last.switchFired) => playState = last.playState
             /\ NearestStep(last.address, addressIndex)
       /\ last.address < 0 => addressIndex = runIndex

C6_Witness ==
    /\ last.valid
    /\ last.mainEdge
    /\ last.address = 5
    /\ last.playState = STATE_PLAY
    /\ last.runIndex = 6
    /\ runIndex = 6
    /\ addressIndex = 1

\* C7: the end-of-cycle pulse is triggered in exactly the samples in which a
\* clock-driven increment takes the run index past 7; on such a wrap
\* PLAY_ONCE becomes STOPPED and PLAYING stays PLAYING; a reset through
\* the play switch or the reset input never triggers it.
C7_EndOfCycle ==
    last.valid
    => /\ last.eocTriggered
          <=> (/\ Qualifying
               /\ ~ResetApplied
               /\ last.runIndex = SEQUENCE_LENGTH - 1)
       /\ last.eocTriggered => (runIndex = 0 /\ eocOutput = 10)
       /\ (last.eocTriggered /\ ~last.switchFired)
          => /\ last.playState = STATE_PLAY_ONCE => playState = STATE_STOPPED
             /\ last.playState = STATE_PLAY => playState = STATE_PLAY
       /\ ResetApplied => ~last.eocTriggered

C7_Witness ==
    /\ last.valid
    /\ last.eocTriggered
    /\ last.playState = STATE_PLAY
    /\ playState = STATE_PLAY
    /\ runIndex = 0

(***************************************************************************)
(* Claims about MultDivClock, checked under SpecSteady and SpecFree.       *)
(***************************************************************************)
\* the time from the last input edge to the last call, in 1e-4 s
SinceEdge == ((clkPhase + clkPeriod - 1) % clkPeriod) * clkDt

\* the time from the start of the output cycle to the last call
SinceCycle ==
    ((clkEdges - 1) % RatioDivisor(clk.multDiv)) * clkPeriod * clkDt + SinceEdge

\* the input period, in 1e-4 s
InputPeriod == clkPeriod * clkDt

\* the output of a ratio +N at time t after an input edge: N sub-periods of
\* InputPeriod / N, each high for its first half (t mod (P / N) <= P / 2N)
MultipliedShape(t, N) == 2 * ((N * t) % InputPeriod) <= InputPeriod

C10_RatioZeroIsIdentity ==
    (clk.multDiv = 0 /\ clkTwin.multDiv = 1)
    => /\ clkOut = twinOut
       /\ clk.secondsSinceLastClock = clkTwin.secondsSinceLastClock
       /\ clk.inputClockLengthSeconds = clkTwin.inputClockLengthSeconds
       /\ clk.dividerCount = clkTwin.dividerCount
       /\ clk.dividedProgressSeconds = clkTwin.dividedProgressSeconds
       /\ GetEffectiveClockLength(clk).d > 0
       /\ GetEffectiveClockLength(clk).n * GetEffectiveClockLength(clkTwin).d
          = GetEffectiveClockLength(clkTwin).n * GetEffectiveClockLength(clk).d

C10_Witness ==
    /\ clk.multDiv = 0
    /\ clkTwin.multDiv = 1
    /\ clkEdges >= 2
    /\ clk.inputClockLengthSeconds = 12
    /\ clk.dividedProgressSeconds = 12
    /\ clkOut = 0
    /\ twinOut = 0

\* C11: until the second input edge the measured period is the negative
\* sentinel and process() has returned 0 on every call, for every ratio;
\* before the first edge secondsSinceLastClock is the sentinel as well.
C11_StartUp ==
    /\ clkEdges = 0 => clk.secondsSinceLastClock = ClockSentinel
    /\ clkEdges < 2
       => /\ clk.inputClockLengthSeconds = ClockSentinel
          /\ clkOut = 0

C11_Witness ==
    /\ clk.multDiv = 2
    /\ clkEdges = 1
    /\ clk.secondsSinceLastClock >= 2 * MinGateSeconds
    /\ clk.dividedProgressSeconds = MinGateSeconds
    /\ clk.inputClockLengthSeconds = ClockSentinel
    /\ clkOut = 0

(***************************************************************************)
(* Claims about SamplingModulator, checked under SpecSm.                   *)
(***************************************************************************)
\* the index of the first RESET entry, numSteps if there is none
FirstReset(states) ==
    LET resets == {i \in 0 .. numSteps - 1 : states[i] = STATE_RESET}
    IN  IF resets = {}
        THEN numSteps
        ELSE CHOOSE i \in resets : \A j \in resets : i <= j

\* C12: the effective step count of a sample is the index of the first RESET
\* entry (8 if none); with an effective count E >= 1 and the step below E, an
\* advance moves the step to the next of 0 .. E-1 cyclically, and the step
\* stays below E.
C12_ResetTruncation ==
    smLast.valid
    => /\ numEffectiveSteps = FirstReset(stepStates)
       /\ (numEffectiveSteps >= 1 /\ smLast.prevStep < numEffectiveSteps)
          => /\ currentStep < numEffectiveSteps
             /\ smLast.advanced
                => currentStep = (smLast.prevStep + 1) % numEffectiveSteps
             /\ ~smLast.advanced => currentStep = smLast.prevStep

C12_Witness ==
    /\ smLast.valid
    /\ stepStates[1] = STATE_OFF
    /\ numEffectiveSteps = 2
    /\ smLast.advanced
    /\ smLast.prevStep = 1
    /\ currentStep = 0

\* C13, for effective step counts of at least 1: the effective step count is
\* in [0,8], and the step index read at the half-phase crossing and the step
\* index after the advance (used for the trigger output and the lights) are
\* below the effective step count of the same sample, whatever the switches
\* did between the samples.
C13_IndexValidity ==
    (smLast.valid /\ numEffectiveSteps >= 1)
    => /\ numEffectiveSteps \in 0 .. 8
       /\ smLast.halfIndex # -1 => smLast.halfIndex < numEffectiveSteps
       /\ currentStep < numEffectiveSteps

\* C14: with an effective step count of 0 an advance uses modulus 1 and
\* leaves the step at 0, and the DC compensation term is not evaluated; no
\* modulus and no divisor of process() is 0.
C14_ZeroLength ==
    smLast.valid
    => /\ (numEffectiveSteps = 0 /\ smLast.advanced)
          => (smLast.modulus = 1 /\ currentStep = 0)
       /\ numEffectiveSteps = 0 => smLast.dcDivisor = -1
       /\ smLast.advanced => smLast.modulus >= 1
       /\ smLast.dcDivisor # 0
       /\ deltaPhase > 0

C14_Witness ==
    /\ smLast.valid
    /\ numEffectiveSteps = 0
    /\ removeDC
    /\ smLast.advanced
    /\ smLast.prevStep = 3
    /\ currentStep = 0

\* C15: heldValue is its initial value 0 plus the sum of the magnitudes
\* handed to the hold synthesizer.
C15_HeldValuePairing == heldValue = holdSum

C15_Witness ==
    /\ smLast.valid
    /\ smLast.heldChanged
    /\ smLast.holdEdge
    /\ currentStep = 3
    /\ heldValue = 10
    /\ holdSum = 10

\* C16: heldValue changes in a sample only on a rising edge of the hold
\* input, or on an advance onto an ON step while the hold detector is not
\* high.
C16_SamplingRule ==
    (smLast.valid /\ smLast.heldChanged)
    => \/ smLast.holdEdge
       \/ /\ smLast.advanced
          /\ stepStates[currentStep] = STATE_ON
          /\ ~holdDetector

C16_Witness ==
    /\ smLast.valid
    /\ smLast.heldChanged
    /\ ~smLast.holdEdge
    /\ smLast.advanced
    /\ stepStates[1] = STATE_OFF
    /\ currentStep = 0
    /\ heldValue = 25

\* C17: in external mode the step advances exactly in the samples with a
\* sync edge; in internal mode exactly in the samples with a phase wrap or a
\* sync edge, and a sync edge restarts the phase from 0 with the half-phase
\* flag cleared; the step advances at most once per sample.
C17_ClockModes ==
    smLast.valid
    => /\ smLast.external => (smLast.advanced <=> smLast.syncEdge)
       /\ ~smLast.external
          => (smLast.advanced <=> (smLast.wrapped \/ smLast.syncEdge))
       /\ (~smLast.external /\ smLast.syncEdge)
          => /\ smLast.syncPhase = 0
             /\ stepPhase = deltaPhase
             /\ halfPhase = (deltaPhase >= PhaseHalf)
       /\ currentStep = IF smLast.advanced
                        THEN (smLast.prevStep + 1) % Max(1, numEffectiveSteps)
                        ELSE smLast.prevStep

C17_Witness ==
    /\ smLast.valid
    /\ smLast.external
    /\ smLast.wrapped
    /\ ~smLast.advanced
    /\ currentStep = 2

(***************************************************************************)
(* Claims about MultiGateClock, checked under SpecGate.                    *)
(***************************************************************************)
\* C18: whatever the remaining time and the full pulse length, getGate(-1)
\* returns 0 and getGate(0) returns the full level.
C18_GateModeBoundary ==
    /\ gateMode = -1 => gateOut = 0
    /\ gateMode = 0 => gateOut = GateHighVoltage

C18_Witness ==
    /\ gateMode = 0
    /\ gateOut = GateHighVoltage
    /\ gateElapsed > 0
    /\ gateClock.fullPulseLength = 16
    /\ gateClock.remaining <= 0

\* the time counted down since reset(), as a numerator over gateClock.den
GateTime == gateElapsed * gateClock.den

\* the sub-interval of length L / 2N, counted from 1, that holds time t > 0
SubInterval(t, L, N) == (t * 2 * N + L - 1) \div L

QuadraticGates == {-1, 1, 2, 4, 8}

Distance(a, b) == IF a >= b THEN a - b ELSE b - a

\* C20: with quadraticGatesOnly, getGateMode() returns a member of
\* {-1,1,2,4,8} that no other member is nearer to the gate selection than.
C20_QuadraticNearest ==
    (gateModeResult # -2 /\ quadraticGatesOnly)
    => LET gate == GateSelection(gateModeConnected, gateModeVoltage, gateModeParam)
       IN  /\ gateModeResult \in QuadraticGates
           /\ \A q \in QuadraticGates :
                Distance(gate, GateModeDen * gateModeResult)
                <= Distance(gate, GateModeDen * q)

(***************************************************************************)
(* Claims about the routing of the signal, checked under SpecOut.          *)
(***************************************************************************)
\* the eight mux outputs with the active step carrying v and the others 0
OnlyActive(v) == [i \in Steps |-> IF i = addressIndex THEN v ELSE 0]

\* C21: after every process call with playState not STOPPED, in 1-in-8-out
\* mode the mux output of the active step is that step's level times the
\* common input, every other mux output is 0 and the common output is 0; in
\* 8-in-1-out mode the common output is the active step's input times its
\* level and the eight mux outputs are 0.
C21_Routing ==
    (outLast.processed /\ playState # STATE_STOPPED)
    => IF modeCOMIO = COM_1_IN_8_OUT
       THEN /\ muxOutputs = OnlyActive(outLast.stepVolume * outLast.comInput)
            /\ comOutput = 0
       ELSE /\ comOutput = outLast.stepVolume
                           * NormalVoltage(outLast.muxConnected, outLast.muxVoltage,
                                           10 * allInNormalVoltage)
            /\ muxOutputs = [i \in Steps |-> 0]

(***************************************************************************)
(* Claims about the tap tempo button and the expander, checked under       *)
(* SpecTap.                                                                *)
(***************************************************************************)
\* what a call leaves behind when the tap tempo button has position tap:
\* every field, and every output but the record of the inputs
AfterCall(resetV, play, address, tap) ==
    LET n == MuxStep(MuxState, ClockVoltage(clockPhase), resetV, play, address, tap)
    IN  <<n, [OutputStep(OutState, n, IdleIo, tap) EXCEPT !.outLast = OutLastInit]>>

\* C25: while a cable is on the clock input, the tap tempo button is
\* ignored: from any state, a call with the button pressed and a call with
\* the button released, all other inputs equal, leave the same fields
\* (internalClockLength, tapTime, the clocks, the sequence) and outputs.
C25_TapIgnored ==
    clockConnected
    => \A resetV \in ResetVoltages, play \in PlayParams, address \in {-1, 5} :
           AfterCall(resetV, play, address, 1) = AfterCall(resetV, play, address, 0)

\* a call on a clock edge with the button pressed has been made
C25_Witness ==
    /\ clockConnected
    /\ outLast.processed
    /\ outLast.tap = 1
    /\ last.mainEdge
    /\ tapTempoTrigger = TRUE

\* the message as the claim has it: the values on the module's own outputs
MessageOfOutputs ==
    [addressIndex |-> addressIndex, allGates |-> allGatesOutput,
     outputClock |-> clockOutput, isPlaying |-> playState # STATE_STOPPED]

\* C26 as stated: after every process call made with an expander beside the
\* module the producer message holds addressIndex, the ALL_GATES output
\* voltage, the CLOCK output voltage and playState != STOPPED, and
\* messageFlipRequested is true; without an expander nothing is written.
C26_MessageAsOutputs ==
    outLast.processed
    => IF expander
       THEN message = MessageOfOutputs /\ messageFlipRequested
       ELSE message = MessageInit /\ ~messageFlipRequested

\* C26: after every process call made with an expander beside the module
\* the producer message holds addressIndex, the CLOCK output voltage,
\* playState != STOPPED and the level of the gate generator for the gate
\* mode of that call, which is the ALL_GATES output voltage while the module
\* is not STOPPED (while STOPPED the ALL_GATES output is 0 whatever the gate
\* generator says); messageFlipRequested is true; without an expander
\* nothing is written.
C26_Message ==
    outLast.processed
    => IF expander
       THEN /\ message.addressIndex = addressIndex
            /\ message.outputClock = clockOutput
            /\ message.isPlaying = (playState # STATE_STOPPED)
            /\ message.allGates = GetGate(multiClock, outLast.gateMode)
            /\ allGatesOutput = (IF playState # STATE_STOPPED
                                 THEN message.allGates ELSE 0)
            /\ messageFlipRequested
       ELSE message = MessageInit /\ ~messageFlipRequested

\* a message written while STOPPED with the gate generator high, and the
\* ALL_GATES output at 0
C26_Witness ==
    /\ outLast.processed
    /\ expander
    /\ playState = STATE_STOPPED
    /\ message.allGates = GateHighVoltage
    /\ allGatesOutput = 0
    /\ messageFlipRequested
    /\ outLast.gateMode = 2

(***************************************************************************)
(* Claims about the gate modes, checked under SpecMex.                     *)
(***************************************************************************)
\* C28: after every process call the run index and the active step index
\* are in [0, 7], the gate mode that getGateMode() returned is in [-1, 8],
\* and the index computed for the table possibleQuadraticGates is in [0, 4]
\* (1 .. 5 for the table counted from 1).
C28_IndexBounds ==
    /\ runIndex \in Steps
    /\ addressIndex \in Steps
    /\ DOMAIN gateOutputs = Steps
    /\ outLast.gateMode \in -1 .. 8
    /\ outLast.quadraticIndex \in 0 .. 4
    /\ outLast.quadraticIndex + 1 \in DOMAIN possibleQuadraticGates

\* the highest selections: the address far above the last step, the gate
\* mode knob and the gate mode voltage at their upper ends, quadratic only
C28_Witness ==
    /\ outLast.processed
    /\ quadraticGatesOnly
    /\ last.address = 120
    /\ addressIndex = SEQUENCE_LENGTH - 1
    /\ runIndex = 3
    /\ outLast.quadraticIndex = 4
    /\ outLast.gateMode = 8

(***************************************************************************)
(* Claims about the reset flag, checked under Spec.                        *)
(***************************************************************************)
\* C29: a reset raised in a call (reset input, or play switch freshly moved
\* to PLAY_ONCE) is applied before the sequence advances and the flag is
\* cleared in that same call: with a qualifying clock edge in the same call
\* the run index is 1 afterwards (reset to 0, then advanced), without one it
\* is 0, and no reset is pending when the call returns.
C29_ResetOrdering ==
    /\ reset = FALSE
    /\ (last.valid /\ ResetApplied)
       => runIndex = (IF Qualifying THEN 1 ELSE 0)

C29_Witness ==
    /\ last.valid
    /\ last.resetEdge
    /\ Qualifying
    /\ last.runIndex = 5
    /\ runIndex = 1
    /\ reset = FALSE

\* the clock of the module: what decides when the following clock edges,
\* gates and output clock pulses come
ClockPart(n) ==
    [internalClockProgress |-> n.internalClockProgress,
     internalClockLength |-> n.internalClockLength,
     tapTime |-> n.tapTime,
     inputClockTrigger |-> n.inputClockTrigger,
     mainClockMultDiv |-> n.mainClockMultDiv,
     mainClockTrigger |-> n.mainClockTrigger,
     outputClockMultDiv |-> n.outputClockMultDiv,
     multiClock |-> n.multiClock,
     clockOutput |-> n.clockOutput]

\* the clock after a call with no reset from the fields s
ClockUndisturbed(s, address) ==
    ClockPart(MuxStep(s, ClockVoltage(clockPhase), 0, STATE_STOPPED, address, 0))

\* C30: a reset leaves the clock alone.  From any state, a call with a
\* reset (reset input high, or the play switch in any position) leaves
\* internalClockProgress, internalClockLength, tapTime, both MultDivClocks
\* and the gate generator exactly as the same call without it; and the clock
\* after a call does not depend on what a reset changes (playState,
\* runIndex, the reset flag), so the following edges come at the same times.
C30_ResetLeavesClock ==
    \A address \in {-1, 5} :
        /\ \A resetV \in ResetVoltages, play \in PlayParams :
               ClockPart(MuxStep(MuxState, ClockVoltage(clockPhase), resetV, play,
                                 address, 0))
               = ClockUndisturbed(MuxState, address)
        /\ \A ps \in PlayParams, ri \in {0, 5} :
               ClockUndisturbed([MuxState EXCEPT !.playState = ps, !.runIndex = ri],
                                address)
               = ClockUndisturbed(MuxState, address)

\* a reset has been applied in the middle of a clock period
C30_Witness ==
    /\ last.valid
    /\ last.resetEdge
    /\ last.runIndex = 5
    /\ runIndex = 0
    /\ internalClockProgress > 0
    /\ multiClock.remaining > 0

(***************************************************************************)
(* Claims about the edge detectors, checked under SpecEdge.                *)
(***************************************************************************)
\* C27: a detector reports true only on a sample where the signal is at or
\* above the upper threshold (2.0 V) and only if, since it last reported
\* true, the signal has been at or below the lower threshold (0.1 V): after
\* a report it stays silent, whatever the signal does between the two
\* thresholds, until the signal has fallen to 0.1 V and risen to 2.0 V again.
C27_Hysteresis ==
    \A d \in Detectors :
        edgeFired[d] => (edgeLowBefore[d] /\ edgeIn[d] >= RescaleHigh)

\* a detector that has reported and, the signal not yet down to 0.1 V
\* since, sees 5 V and stays silent, while the other detector reports
C27_Witness ==
    /\ ~edgeLowSeen["clock"]
    /\ ~edgeLowBefore["clock"]
    /\ edgeIn["clock"] = 50
    /\ ~edgeFired["clock"]
    /\ edgeFired["holdDetector"]

(***************************************************************************)
(* Claims about saving and loading the settings, checked under SpecJson.   *)
(***************************************************************************)
\* C22: for every value of the six settings, loading the document that
\* dataToJson() wrote, into the same module or into a newly constructed one,
\* leaves all six settings equal to their values at the save.
C22_RoundTrip ==
    jsonLoaded.source = "saved" => Settings = jsonSaved

\* settings none of which is the default, saved, and loaded into a new module
C22_Witness ==
    /\ jsonLoaded.source = "saved"
    /\ jsonLoaded.ontoFresh
    /\ Settings = [modeCOMIO |-> COM_8_IN_1_OUT, quadraticGatesOnly |-> TRUE,
                   allInNormalVoltage |-> 5, mainClockMultDiv |-> -2,
                   outputClockMultDiv |-> -16, playState |-> STATE_PLAY]

\* C23: after dataFromJson of a document in which some of the six keys are
\* missing, into a newly constructed module, each setting whose key is
\* missing has its default value.
C23_MissingKeysKeepDefaults ==
    (jsonLoaded.source # "none" /\ jsonLoaded.ontoFresh)
    => \A k \in JsonKeys \ DOMAIN rootJ : Settings[k] = DefaultSettings[k]

\* C24: after dataFromJson of any document every setting is a valid value:
\* the play state one of the three, the I/O mode one of the two, the all-in
\* voltage one of {1, 5, 10}, both clock ratios members of the menu's list.
C24_SettingsValid ==
    jsonLoaded.source # "none"
    => /\ playState \in {STATE_PLAY_ONCE, STATE_STOPPED, STATE_PLAY}
       /\ modeCOMIO \in {COM_1_IN_8_OUT, COM_8_IN_1_OUT}
       /\ allInNormalVoltage \in VoltageOptions
       /\ mainClockMultDiv.multDiv \in ClockOptions
       /\ outputClockMultDiv.multDiv \in ClockOptions

(***************************************************************************)
(* Claims about the outputs of a stopped module, checked under SpecOut.    *)
(***************************************************************************)
\* C31: after every process call that leaves playState STOPPED, the eight
\* gate outputs and the ALL_GATES output are 0, and so are the signal
\* outputs of the routing mode in use: the eight mux outputs in 1-in-8-out
\* mode, the common output in 8-in-1-out mode.
C31_StoppedOutputs ==
    (outLast.processed /\ playState = STATE_STOPPED)
    => /\ gateOutputs = [i \in Steps |-> 0]
       /\ allGatesOutput = 0
       /\ IF modeCOMIO = COM_1_IN_8_OUT
          THEN muxOutputs = [i \in Steps |-> 0]
          ELSE comOutput = 0

(***************************************************************************)
(* Claims about the clock period tracking, checked under SpecTempo.        *)
(***************************************************************************)
\* the last call gave the sequencer clock a pulse
ClockTicked == mainClockMultDiv.secondsSinceLastClock = SampleTime

====
